---- MODULE Spec2Model ----
(***************************************************************************)
(* Model of the follio cover library: ZIP batch import, library save,      *)
(* library generation and the thumbnail generation endpoint, over the      *)
(* relational state (cover projects, cover versions, thumbnail jobs,       *)
(* gallery images) and the media host.                                     *)
(*                                                                         *)
(* Strings are sequences of one-character strings, so that trimming,       *)
(* lower-casing, splitting and slugifying are computed, not assumed.       *)
(***************************************************************************)
EXTENDS Integers, Sequences, FiniteSets, TLC

VARIABLES
    projects,   \* CoverProject table: sequence of rows, the row id is its index
    versions,   \* CoverVersion table: set of rows
    jobs,       \* ThumbnailJob table: sequence of rows, the row id is its index
    gallery,    \* GalleryImage table: sequence of rows in creation order
    cloud,      \* media host: sequence of uploads performed
    reqs,       \* one record per HTTP request slot: handler, position, locals, response
    archive,    \* the ZIP archive handed to extractArchiveProjects (pure-function runs)
    extracted   \* its result, once it has returned

vars == <<projects, versions, jobs, gallery, cloud, reqs, archive, extracted>>

Null == "null"          \* a missing mime type or status
NullStr == <<"null">>   \* a missing string or URL (strings are sequences of characters)
NoId == 0               \* a missing row id (row ids start at 1)
NotExtracted == [done |-> FALSE, groups |-> <<>>]

\* ---------------------------------------------------------------------------
\* Bounds
\* ---------------------------------------------------------------------------
MaxReqs == 2          \* HTTP requests per behaviour of the whole service
MaxGenerateReqs == 2  \* HTTP requests per behaviour of POST /api/generate alone
MaxBatchReqs == 2     \* HTTP requests per behaviour of the batch upload alone
MaxLibraryReqs == 2   \* HTTP requests per behaviour of the cover library alone
MaxEntries == 4       \* entries of an enumerated archive
MaxImages == 4        \* images carried by one POST /api/generate request

\* ---------------------------------------------------------------------------
\* Strings
\* ---------------------------------------------------------------------------
ToLowerChar(c) ==
    CASE c = "A" -> "a" [] c = "B" -> "b" [] c = "C" -> "c" [] c = "D" -> "d"
      [] c = "E" -> "e" [] c = "F" -> "f" [] c = "G" -> "g" [] c = "H" -> "h"
      [] c = "I" -> "i" [] c = "J" -> "j" [] c = "K" -> "k" [] c = "L" -> "l"
      [] c = "M" -> "m" [] c = "N" -> "n" [] c = "O" -> "o" [] c = "P" -> "p"
      [] c = "Q" -> "q" [] c = "R" -> "r" [] c = "S" -> "s" [] c = "T" -> "t"
      [] c = "U" -> "u" [] c = "V" -> "v" [] c = "W" -> "w" [] c = "X" -> "x"
      [] c = "Y" -> "y" [] c = "Z" -> "z" [] OTHER -> c

toLowerCase(s) == [i \in 1..Len(s) |-> ToLowerChar(s[i])]

IsWhitespace(c) == c \in {" ", "\t", "\n"}

IsLowerAlnum(c) ==
    c \in {"a","b","c","d","e","f","g","h","i","j","k","l","m","n","o","p","q",
           "r","s","t","u","v","w","x","y","z",
           "0","1","2","3","4","5","6","7","8","9"}

RECURSIVE TrimStart(_)
TrimStart(s) ==
    IF s = <<>> THEN <<>>
    ELSE IF IsWhitespace(Head(s)) THEN TrimStart(Tail(s)) ELSE s

RECURSIVE TrimEnd(_)
TrimEnd(s) ==
    IF s = <<>> THEN <<>>
    ELSE IF IsWhitespace(s[Len(s)]) THEN TrimEnd(SubSeq(s, 1, Len(s) - 1)) ELSE s

trim(s) == TrimEnd(TrimStart(s))

startsWith(s, p) == Len(s) >= Len(p) /\ SubSeq(s, 1, Len(p)) = p

\* String.prototype.slice(0, n)
sliceTo(s, n) == SubSeq(s, 1, IF Len(s) < n THEN Len(s) ELSE n)

\* 1-based position of the last occurrence of c in s, 0 when absent
RECURSIVE lastIndexOf(_, _)
lastIndexOf(s, c) ==
    IF s = <<>> THEN 0
    ELSE IF s[Len(s)] = c THEN Len(s)
    ELSE lastIndexOf(SubSeq(s, 1, Len(s) - 1), c)

\* s.split(sep) for a one-character separator, empty pieces kept
RECURSIVE SplitAcc(_, _, _)
SplitAcc(s, sep, cur) ==
    IF s = <<>> THEN <<cur>>
    ELSE IF Head(s) = sep THEN <<cur>> \o SplitAcc(Tail(s), sep, <<>>)
    ELSE SplitAcc(Tail(s), sep, Append(cur, Head(s)))

split(s, sep) == SplitAcc(s, sep, <<>>)

\* Array.prototype.filter(Boolean) on an array of strings
RECURSIVE filterNonEmpty(_)
filterNonEmpty(ss) ==
    IF ss = <<>> THEN <<>>
    ELSE IF Head(ss) = <<>> THEN filterNonEmpty(Tail(ss))
    ELSE <<Head(ss)>> \o filterNonEmpty(Tail(ss))

RECURSIVE join(_, _)
join(ss, sep) ==
    IF ss = <<>> THEN <<>>
    ELSE IF Len(ss) = 1 THEN Head(ss)
    ELSE Head(ss) \o sep \o join(Tail(ss), sep)

\* replace(/[^a-z0-9]+/g, "_"): every maximal run of other characters becomes one "_"
RECURSIVE ReplaceNonAlnumRuns(_, _)
ReplaceNonAlnumRuns(s, inRun) ==
    IF s = <<>> THEN <<>>
    ELSE IF IsLowerAlnum(Head(s)) THEN <<Head(s)>> \o ReplaceNonAlnumRuns(Tail(s), FALSE)
    ELSE IF inRun THEN ReplaceNonAlnumRuns(Tail(s), TRUE)
    ELSE <<"_">> \o ReplaceNonAlnumRuns(Tail(s), TRUE)

\* replace(/_{2,}/g, "_")
RECURSIVE CollapseUnderscores(_)
CollapseUnderscores(s) ==
    IF Len(s) < 2 THEN s
    ELSE IF s[1] = "_" /\ s[2] = "_" THEN CollapseUnderscores(Tail(s))
    ELSE <<Head(s)>> \o CollapseUnderscores(Tail(s))

\* replace(/^_+|_+$/g, "")
RECURSIVE StripUnderscores(_)
StripUnderscores(s) ==
    IF s = <<>> THEN <<>>
    ELSE IF Head(s) = "_" THEN StripUnderscores(Tail(s))
    ELSE IF s[Len(s)] = "_" THEN StripUnderscores(SubSeq(s, 1, Len(s) - 1))
    ELSE s

SLUG_MAX_LENGTH == 60

cover_project == <<"c","o","v","e","r","_","p","r","o","j","e","c","t">>

slugifyProjectName(name) ==
    LET normalized ==
            StripUnderscores(CollapseUnderscores(
                ReplaceNonAlnumRuns(toLowerCase(trim(name)), FALSE)))
    IN  IF Len(normalized) = 0 THEN cover_project
        ELSE sliceTo(normalized, SLUG_MAX_LENGTH)

\* ---------------------------------------------------------------------------
\* ZIP import: src/app/api/library/batch-upload/route.ts
\* ---------------------------------------------------------------------------
MAX_IMAGES_PER_ARCHIVE == 60
MAX_IMAGES_PER_PROJECT == 3

\* EXTENSION_TO_MIME[extension], Null when the extension is not a key
EXTENSION_TO_MIME(ext) ==
    CASE ext = <<"p","n","g">> -> "image/png"
      [] ext = <<"j","p","g">> -> "image/jpeg"
      [] ext = <<"j","p","e","g">> -> "image/jpeg"
      [] ext = <<"w","e","b","p">> -> "image/webp"
      [] OTHER -> Null

ACCEPTED_IMAGE_TYPES == {"image/png", "image/jpeg", "image/webp"}

getFileExtension(fileName) ==
    IF fileName = <<>> THEN NullStr
    ELSE LET normalized == toLowerCase(fileName)
             lastDot == lastIndexOf(normalized, ".")
         IN  IF lastDot = 0 \/ lastDot = Len(normalized) THEN NullStr
             ELSE SubSeq(normalized, lastDot + 1, Len(normalized))

\* entryName.split(/[/\\]/).filter(Boolean).join("-")
sanitizeFileName(entryName) ==
    join(filterNonEmpty(split([i \in 1..Len(entryName) |->
                                  IF entryName[i] = "\\" THEN "/" ELSE entryName[i]], "/")),
         <<"-">>)

root == <<"r","o","o","t">>
macosx_prefix == <<"_","_","m","a","c","o","s","x","/">>

\* the segment taken without folding the case of "root"
resolveProjectSegmentCaseSensitive(segments) ==
    IF Len(segments) = 0 THEN NullStr
    ELSE IF segments[1] = root
         THEN (IF Len(segments) >= 2 THEN segments[2] ELSE NullStr)
    ELSE segments[1]

resolveProjectSegment(segments) ==
    IF Len(segments) = 0 THEN NullStr
    ELSE IF toLowerCase(segments[1]) = root
         THEN (IF Len(segments) >= 2 THEN segments[2] ELSE NullStr)
    ELSE segments[1]

\* entry.name.replace(/\\+/g, "/"): every run of backslashes becomes one "/"
RECURSIVE normalizePath(_, _)
normalizePath(s, inRun) ==
    IF s = <<>> THEN <<>>
    ELSE IF Head(s) = "\\"
         THEN (IF inRun THEN normalizePath(Tail(s), TRUE)
               ELSE <<"/">> \o normalizePath(Tail(s), TRUE))
    ELSE <<Head(s)>> \o normalizePath(Tail(s), FALSE)

\* One iteration of the loop of extractArchiveProjects up to the construction of
\* `input` (lines 89-129): <<>> when the entry is skipped, otherwise the one-element
\* sequence of the slug, the project name and the image input.  The entry's index stands for the
\* fresh randomUUID().
entryInput(entry, index) ==
    IF entry.dir THEN <<>>
    ELSE IF startsWith(toLowerCase(entry.name), macosx_prefix) THEN <<>>
    ELSE
    LET segments == filterNonEmpty(split(normalizePath(entry.name, FALSE), "/"))
        projectSegment == resolveProjectSegment(segments)
    IN  IF projectSegment = NullStr THEN <<>>
        ELSE
        LET projectName == trim(projectSegment)
        IN  IF projectName = <<>> THEN <<>>
            ELSE
            LET slug == slugifyProjectName(projectName)
                fileSegments ==
                    IF toLowerCase(segments[1]) = root
                    THEN SubSeq(segments, 3, Len(segments))
                    ELSE SubSeq(segments, 2, Len(segments))
            IN  IF slug = <<>> THEN <<>>
                ELSE IF Len(fileSegments) = 0 THEN <<>>
                ELSE
                LET relativeName == join(fileSegments, <<"/">>)
                IN  IF relativeName = <<>> \/ startsWith(relativeName, <<".","_">>) THEN <<>>
                    ELSE
                    LET extension == getFileExtension(relativeName)
                    IN  IF extension = NullStr THEN <<>>
                        ELSE
                        LET mimeType == EXTENSION_TO_MIME(extension)
                        IN  IF mimeType = Null THEN <<>>
                            ELSE IF mimeType \notin ACCEPTED_IMAGE_TYPES THEN <<>>
                            ELSE IF Len(entry.bytes) = 0 THEN <<>>
                            ELSE <<[slug |-> slug,
                                  name |-> projectName,
                                  input |-> [id |-> index,
                                             name |-> sanitizeFileName(relativeName),
                                             base64 |-> <<mimeType, entry.bytes>>,
                                             uploadUrl |-> NullStr,
                                             mimeType |-> mimeType,
                                             sizeBytes |-> Len(entry.bytes)]]>>

\* position of the group with this slug in the insertion-ordered Map, 0 when absent
groupIndex(groups, slug) ==
    IF \E i \in 1..Len(groups) : groups[i].slug = slug
    THEN CHOOSE i \in 1..Len(groups) : groups[i].slug = slug
    ELSE 0

\* the group filled one image past the limit
addToGroupsPastLimit(groups, item) ==
    LET existing == groupIndex(groups, item.slug)
    IN  IF existing # 0
        THEN IF Len(groups[existing].inputs) > MAX_IMAGES_PER_PROJECT
             THEN groups
             ELSE [groups EXCEPT ![existing].inputs = Append(@, item.input)]
        ELSE Append(groups, [slug |-> item.slug, name |-> item.name, inputs |-> <<item.input>>])

\* lines 131-144: add the input to its group, unless the group is full
addToGroups(groups, item) ==
    LET existing == groupIndex(groups, item.slug)
    IN  IF existing # 0
        THEN IF Len(groups[existing].inputs) >= MAX_IMAGES_PER_PROJECT
             THEN groups
             ELSE [groups EXCEPT ![existing].inputs = Append(@, item.input)]
        ELSE Append(groups, [slug |-> item.slug, name |-> item.name, inputs |-> <<item.input>>])

\* one iteration of the loop of lines 88-145
extractEntry(groups, entries, index) ==
    LET item == entryInput(entries[index], index)
    IN  IF item = <<>> THEN groups ELSE addToGroups(groups, item[1])

\* The loop of lines 88-145 over entries[lo..hi], in order, starting from `groups`.
\* The range is walked as its first half followed by its second half, which is
\* the same left-to-right iteration with a recursion depth of log(hi - lo).
RECURSIVE extractRange(_, _, _, _)
extractRange(entries, lo, hi, groups) ==
    IF lo > hi THEN groups
    ELSE IF lo = hi THEN extractEntry(groups, entries, lo)
    ELSE LET mid == (lo + hi) \div 2
             firstHalf == extractRange(entries, lo, mid, groups)
         IN  \* the test makes the first half a value before the second half is walked
             IF Len(firstHalf) >= 0
             THEN extractRange(entries, mid + 1, hi, firstHalf)
             ELSE firstHalf

\* The Map returned by extractArchiveProjects, as the sequence of its values in
\* insertion order
extractArchiveProjects(entries) == extractRange(entries, 1, Len(entries), <<>>)

RECURSIVE totalImages(_)
totalImages(groups) ==
    IF groups = <<>> THEN 0
    ELSE Len(Head(groups).inputs) + totalImages(Tail(groups))

\* ---------------------------------------------------------------------------
\* Requests, sessions and rows
\* ---------------------------------------------------------------------------
Users == {"u1", "u2"}
NoUser == "anonymous"        \* auth.api.getSession finds no session

NoResp == [status |-> 0, error |-> ""]
Resp(status, error) == [status |-> status, error |-> error]

IdleReq == [kind |-> "none", pc |-> "idle", user |-> NoUser,
            in |-> <<>>, loc |-> <<>>, resp |-> NoResp]

\* a request slot is taken in order, so that slots are not interchangeable
CanStart(r) ==
    /\ reqs[r].pc = "idle"
    /\ \A q \in DOMAIN reqs : q < r => reqs[q].pc # "idle"

\* the users are interchangeable: the second one appears only after the first
SessionsFor(r) ==
    {NoUser, "u1"} \cup (IF \E q \in DOMAIN reqs : reqs[q].user = "u1" THEN {"u2"} ELSE {})

Finish(r, resp, loc) ==
    [reqs EXCEPT ![r].pc = "done", ![r].resp = resp, ![r].loc = loc]

\* ---------------------------------------------------------------------------
\* src/lib/cloudinary.ts
\* ---------------------------------------------------------------------------
\* secure_url of an uploaded payload: one asset URL per uploaded content
CloudUrl(payload) == <<"cld", payload>>

\* ensureImagesHaveCloudinaryUrls, when every upload succeeds
ensureImagesHaveCloudinaryUrls(images) ==
    [i \in 1..Len(images) |->
        IF images[i].uploadUrl # NullStr
        THEN [images[i] EXCEPT !.base64 = NullStr]
        ELSE [images[i] EXCEPT !.uploadUrl = CloudUrl(images[i].base64),
                               !.base64 = NullStr]]

\* the payloads that ensureImagesHaveCloudinaryUrls sends to the media host
UploadedPayloads(images) ==
    { images[i].base64 : i \in { k \in 1..Len(images) : images[k].uploadUrl = NullStr } }

\* uploadGeneratedImageToCloudinary(url).secureUrl
ResultUrl(url) == <<"res", url>>

\* ---------------------------------------------------------------------------
\* src/lib/gallery.ts
\* ---------------------------------------------------------------------------
\* sha256 is taken to be injective: the checksum is the hashed value, tagged
computeImageChecksum(image) ==
    IF image.base64 # NullStr THEN <<"b64", image.base64>>
    ELSE IF image.uploadUrl # NullStr THEN <<"url", image.uploadUrl>>
    ELSE <<"id", image.id>>

RECURSIVE createManySkipDuplicates(_, _)

\* createMany without skipDuplicates and without the unique index
createManyKeepingDuplicates(table, rows) == table \o rows

\* createMany({ skipDuplicates: true }) under GalleryImage_userId_checksum_key
createManySkipDuplicates(table, rows) ==
    IF rows = <<>> THEN table
    ELSE LET row == Head(rows)
             duplicate == \E i \in 1..Len(table) :
                              /\ table[i].userId = row.userId
                              /\ table[i].checksum = row.checksum
         IN  createManySkipDuplicates(IF duplicate THEN table ELSE Append(table, row),
                                      Tail(rows))

\* the rows built by persistGalleryUploads from uploads <<original, uploaded>>
RECURSIVE galleryRows(_, _, _)
galleryRows(context, originals, uploaded) ==
    IF uploaded = <<>> THEN <<>>
    ELSE (IF Head(uploaded).uploadUrl = NullStr THEN <<>>
          ELSE <<[userId |-> context.userId,
                  jobId |-> context.jobId,
                  projectId |-> context.projectId,
                  isSourceAsset |-> context.isSourceAsset,
                  uploadUrl |-> Head(uploaded).uploadUrl,
                  checksum |-> computeImageChecksum(Head(originals))]>>)
         \o galleryRows(context, Tail(originals), Tail(uploaded))

persistGalleryUploads(table, context, originals, uploaded) ==
    IF uploaded = <<>> THEN table
    ELSE createManySkipDuplicates(table, galleryRows(context, originals, uploaded))

\* ---------------------------------------------------------------------------
\* src/lib/generation.ts
\* ---------------------------------------------------------------------------
PROJECT_NAME_MIN == 3
PROJECT_NAME_MAX == 80
IMAGES_MIN == 1
IMAGES_MAX == 3

\* generationImageSchema: the refine() demands uploadUrl or base64
generationImageSchema(image) == image.uploadUrl # NullStr \/ image.base64 # NullStr

createGenerationSchema(payload) ==
    /\ Len(payload.projectName) >= PROJECT_NAME_MIN
    /\ Len(payload.projectName) <= PROJECT_NAME_MAX
    /\ Len(payload.images) >= IMAGES_MIN
    /\ Len(payload.images) <= IMAGES_MAX
    /\ \A i \in 1..Len(payload.images) : generationImageSchema(payload.images[i])

\* resolveImageSource(images[i]): a missing element makes it throw (TypeError)
CanResolveImageSource(images, i) ==
    /\ i <= Len(images)
    /\ (images[i].uploadUrl # NullStr \/ images[i].base64 # NullStr)

resolveImageSource(image) ==
    IF image.uploadUrl # NullStr THEN image.uploadUrl ELSE image.base64

\* buildFalWorkflowInput reads images[0], images[1], images[2]
CanBuildFalWorkflowInput(images) ==
    \A i \in 1..3 : CanResolveImageSource(images, i)

buildFalWorkflowInput(images) ==
    [i \in 1..3 |-> resolveImageSource(images[i])]

\* sanitizeImageMetadata(image).source, for an image that has been uploaded
sanitizeImageMetadata(image) ==
    IF image.uploadUrl # NullStr THEN image.uploadUrl ELSE <<"preview", image.base64>>

\* ---------------------------------------------------------------------------
\* Inputs
\* ---------------------------------------------------------------------------
name_abc == <<"a","b","c">>
name_Abc_sp == <<"A","b","c"," ">>        \* trims to "Abc", slug "abc"
name_xyz == <<"x","y","z">>
name_blank == <<" "," "," ">>             \* passes min(3), trims to ""
name_short == <<"a","b">>                 \* fails min(3)

\* a base64 image of the request body
Img(k) == [id |-> k, name |-> <<"f">>, base64 |-> <<"image/png", <<k>>>>,
           uploadUrl |-> NullStr, mimeType |-> "image/png", sizeBytes |-> 1]
\* an image that already has an uploadUrl
UrlImg(k) == [id |-> k, name |-> <<"f">>, base64 |-> NullStr,
              uploadUrl |-> <<"ext", k>>, mimeType |-> "image/png", sizeBytes |-> 1]
\* an image with neither source
BadImg(k) == [id |-> k, name |-> <<"f">>, base64 |-> NullStr,
              uploadUrl |-> NullStr, mimeType |-> "image/png", sizeBytes |-> 1]

FirstImages(n) == [i \in 1..n |-> Img(i)]

ImageLists ==
    { FirstImages(n) : n \in 0..MaxImages }
        \cup { <<BadImg(1)>>, <<UrlImg(1), Img(2), Img(3)>>, <<UrlImg(1)>> }

\* aspect is the aspectRatioId: "preset", or "customMissing" for "custom" sent
\* without customWidth and customHeight
GenPayload(name, images, aspect) ==
    [projectName |-> name, images |-> images, aspect |-> aspect]

\* a valid three-image request, varied in one respect at a time
GeneratePayloads ==
    { GenPayload(name_abc, images, "preset") : images \in ImageLists }
        \cup { GenPayload(name, FirstImages(3), "preset") :
                  name \in {name_Abc_sp, name_blank, name_short} }
        \cup { GenPayload(name_abc, FirstImages(3), "customMissing"),
               GenPayload(name_short, FirstImages(1), "preset") }

\* outcomes of runFalWorkflow followed by the uploads of its results
WorkflowOutcomes == {"throws", "nourls", "uploadfails", "ok1", "ok2"}

\* ---------------------------------------------------------------------------
\* POST /api/generate: src/app/api/generate/route.ts
\* ---------------------------------------------------------------------------
\* Array of three built by the while loop of lines 110-114
padImages(images) ==
    [i \in 1..3 |-> IF i <= Len(images) THEN images[i] ELSE images[Len(images)]]

\* a job row created with status RUNNING
NewJobRunning(userId, projectName, projectSlug, inputs) ==
    [userId |-> userId, status |-> "RUNNING",
     projectName |-> projectName, projectSlug |-> projectSlug,
     inputImages |-> inputs,
     falResultUrl |-> NullStr, falResultUrls |-> <<>>]

\* thumbnailJob.create of generate/route.ts:145-160 and part_006:190-205
NewJob(userId, projectName, projectSlug, inputs) ==
    [userId |-> userId, status |-> "PENDING",
     projectName |-> projectName, projectSlug |-> projectSlug,
     inputImages |-> inputs,
     falResultUrl |-> NullStr, falResultUrls |-> <<>>]

\* lines 56-162: session, schema, uploads, workflow input, job row.  uploadOk is
\* whether the media host accepts the uploads.
GenerateStartWith(r, u, payload, uploadOk) ==
    /\ CanStart(r)
    /\ UNCHANGED <<projects, versions, gallery, archive, extracted>>
    /\ LET started == [reqs EXCEPT ![r].kind = "generate", ![r].user = u, ![r].in = payload]
           fail(status, error) ==
               [started EXCEPT ![r].pc = "done", ![r].resp = Resp(status, error)]
           unauthorized == [fail(401, "Unauthorized") EXCEPT ![r].in = <<>>]
       IN  IF u = NoUser
           THEN /\ reqs' = unauthorized
                /\ UNCHANGED <<jobs, cloud>>
           ELSE IF ~createGenerationSchema(payload)
           THEN /\ reqs' = fail(400, "ValidationError")
                /\ UNCHANGED <<jobs, cloud>>
           ELSE IF payload.aspect = "customMissing"
           THEN /\ reqs' = fail(502, "ImageGenerationFailed")
                /\ UNCHANGED <<jobs, cloud>>
           ELSE IF ~uploadOk
           THEN /\ reqs' = fail(502, "ImageGenerationFailed")
                /\ UNCHANGED <<jobs, cloud>>
           ELSE
           LET uploadedImages == ensureImagesHaveCloudinaryUrls(payload.images)
               normalizedProjectName == trim(payload.projectName)
               projectSlug == slugifyProjectName(normalizedProjectName)
           IN  /\ cloud' = cloud \cup UploadedPayloads(payload.images)
               /\ IF ~CanBuildFalWorkflowInput(uploadedImages)
                  THEN /\ reqs' = [fail(502, "ImageGenerationFailed") EXCEPT
                                      ![r].loc = [uploadedImages |-> uploadedImages]]
                       /\ UNCHANGED jobs
                  ELSE
                  LET paddedImages == padImages(uploadedImages)
                      sanitizedImages == [i \in 1..3 |-> sanitizeImageMetadata(paddedImages[i])]
                  IN  /\ jobs' = Append(jobs, NewJob(u, normalizedProjectName, projectSlug,
                                                     sanitizedImages))
                      /\ reqs' = [started EXCEPT
                                    ![r].pc = "created",
                                    ![r].loc = [jobId |-> Len(jobs) + 1,
                                                uploadedImages |-> uploadedImages,
                                                falInput |-> buildFalWorkflowInput(uploadedImages)]]

\* lines 164-179: gallery rows of the source images, then the job is RUNNING
GenerateMarkRunning(r) ==
    /\ reqs[r].kind = "generate" /\ reqs[r].pc = "created"
    /\ LET loc == reqs[r].loc
           job == jobs[loc.jobId]
       IN  /\ gallery' = persistGalleryUploads(gallery,
                            [userId |-> reqs[r].user, jobId |-> loc.jobId,
                             projectId |-> NoId, isSourceAsset |-> FALSE],
                            reqs[r].in.images, loc.uploadedImages)
           /\ jobs' = [jobs EXCEPT ![loc.jobId].status = "RUNNING"]
           /\ reqs' = [reqs EXCEPT ![r].pc = "running"]
    /\ UNCHANGED <<projects, versions, cloud, archive, extracted>>

FalUrls(jobId, n) == [i \in 1..n |-> <<"fal", jobId, i>>]

\* what the inner catch of lines 188-195 does with the job before it responds
WorkflowThrewJobs(js, jobId) == js

\* lines 180-243 and the catch of lines 244-278
GenerateWorkflow(r, outcome) ==
    /\ reqs[r].kind = "generate" /\ reqs[r].pc = "running"
    /\ LET jobId == reqs[r].loc.jobId
           done == reqs[r].loc
       IN  CASE outcome = "throws" ->
                  /\ jobs' = WorkflowThrewJobs(jobs, jobId)
                  /\ reqs' = Finish(r, Resp(502, "ImageGenerationFailed"), done)
                  /\ UNCHANGED cloud
             [] outcome \in {"nourls", "uploadfails"} ->
                  /\ jobs' = [jobs EXCEPT ![jobId].status = "FAILED"]
                  /\ reqs' = Finish(r, Resp(502, "ImageGenerationFailed"), done)
                  /\ UNCHANGED cloud
             [] outcome \in {"ok1", "ok2"} ->
                  LET falWorkflowResultUrls == FalUrls(jobId, IF outcome = "ok1" THEN 1 ELSE 2)
                      resultUrls == [i \in 1..Len(falWorkflowResultUrls) |->
                                        ResultUrl(falWorkflowResultUrls[i])]
                  IN  /\ cloud' = cloud \cup { falWorkflowResultUrls[i] :
                                                 i \in 1..Len(falWorkflowResultUrls) }
                      /\ jobs' = [jobs EXCEPT ![jobId].status = "SUCCESS",
                                              ![jobId].falResultUrl = resultUrls[1],
                                              ![jobId].falResultUrls = resultUrls]
                      /\ reqs' = Finish(r, Resp(200, ""), done)
    /\ UNCHANGED <<projects, versions, gallery, archive, extracted>>

GenerateStart(r) ==
    \E u \in SessionsFor(r), payload \in GeneratePayloads, uploadOk \in BOOLEAN :
        GenerateStartWith(r, u, payload, uploadOk)

\* ---------------------------------------------------------------------------
\* Database: cover projects and cover versions
\* ---------------------------------------------------------------------------
Db(ps, vs) == [projects |-> ps, versions |-> vs]

\* the row found by coverProject.findUnique({ userId_slug }), NoId when none
findProjectByUserSlug(ps, userId, slug) ==
    IF \E i \in 1..Len(ps) : ps[i].userId = userId /\ ps[i].slug = slug
    THEN CHOOSE i \in 1..Len(ps) : ps[i].userId = userId /\ ps[i].slug = slug
    ELSE NoId

\* the table without its unique index on (userId, slug)
ProjectKeyNeverTaken(ps, userId, slug) == FALSE

\* CoverProject_userId_slug_key
ProjectKeyTaken(ps, userId, slug) ==
    \E i \in 1..Len(ps) : ps[i].userId = userId /\ ps[i].slug = slug

\* CoverVersion_projectId_versionNumber_key
VersionKeyTaken(vs, projectId, versionNumber) ==
    \E v \in vs : v.projectId = projectId /\ v.versionNumber = versionNumber

\* a new CoverProject row with the column defaults of the migrations
NewProject(userId, name, slug, latestVersionNumber) ==
    [userId |-> userId, name |-> name, slug |-> slug,
     latestVersionNumber |-> latestVersionNumber,
     librarySelected |-> FALSE,
     libraryGenerationStatus |-> "WAITING",
     libraryGenerationJobId |-> NoId,
     libraryGenerationQueuedAt |-> FALSE,
     libraryGenerationCompletedAt |-> FALSE]

NoSources == <<NullStr, NullStr, NullStr>>

NewVersion(projectId, versionNumber, thumbnailJobId, selectedImageUrl, generated, sources) ==
    [projectId |-> projectId, versionNumber |-> versionNumber,
     thumbnailJobId |-> thumbnailJobId,
     selectedImageUrl |-> selectedImageUrl,
     generatedImageUrls |-> generated,
     sources |-> sources]

\* a body run without a transaction: the writes made before the failure stay
withoutTransaction(before, run) == run.db

\* prisma.$transaction: the writes of a body that threw are rolled back.
\* `before` is the database when the body started writing, `run` the body's
\* outcome: its working copy and whether it ran to the end.
transaction(before, run) == IF run.ok THEN run.db ELSE before

\* A write inside a transaction body: `fault` says the database refuses it (a lost
\* connection, a violated constraint).  A refused or skipped write leaves the
\* working copy alone and the body stays failed.
TxStep(run, fault, db) ==
    IF ~run.ok THEN run
    ELSE IF fault THEN [run EXCEPT !.ok = FALSE]
    ELSE [run EXCEPT !.db = db]

\* ---------------------------------------------------------------------------
\* POST /api/library/save: src/app/api/library/batch-upload/route.ts, 349-486
\* ---------------------------------------------------------------------------
ForeignUrl == <<"ext", 0>>

\* the request body: jobId 0 stands for a missing or empty jobId
SaveBodies(maxJobId) ==
    [jobId : 0..maxJobId,
     selectedImageUrl : {NullStr, ForeignUrl}]

\* the job looked up by its id alone
findJobOfAnyUser(js, jobId, userId) ==
    IF jobId \in 1..Len(js) THEN jobId ELSE NoId

\* prisma.thumbnailJob.findFirst({ where: { id, userId } }), NoId when none
findJob(js, jobId, userId) ==
    IF jobId \in 1..Len(js) /\ js[jobId].userId = userId THEN jobId ELSE NoId

\* lines 351-409: session, schema, job checks, then the transaction's findUnique
SaveStartWith(r, u, body) ==
    /\ CanStart(r)
    /\ UNCHANGED <<projects, versions, jobs, gallery, cloud, archive, extracted>>
    /\ LET started == [reqs EXCEPT ![r].kind = "save", ![r].user = u, ![r].in = body]
           fail(status, error) ==
               [started EXCEPT ![r].pc = "done", ![r].resp = Resp(status, error)]
           unauthorized == [fail(401, "Unauthorized") EXCEPT ![r].in = <<>>]
       IN  IF u = NoUser THEN reqs' = unauthorized
           ELSE IF body.jobId = 0 THEN reqs' = fail(400, "ValidationError")
           ELSE IF findJob(jobs, body.jobId, u) = NoId
           THEN reqs' = fail(404, "NotFound")
           ELSE
           LET job == jobs[findJob(jobs, body.jobId, u)]
               normalizedProjectName == trim(job.projectName)
           IN  IF job.status # "SUCCESS" \/ job.falResultUrl = NullStr
               THEN reqs' = fail(400, "JobNotReady")
               ELSE IF normalizedProjectName = <<>>
               THEN reqs' = fail(400, "MissingName")
               ELSE
               LET projectSlug == IF job.projectSlug # NullStr THEN job.projectSlug
                                  ELSE slugifyProjectName(normalizedProjectName)
                   resultUrl == IF body.selectedImageUrl # NullStr
                                THEN body.selectedImageUrl ELSE job.falResultUrl
                   existingProject == findProjectByUserSlug(projects, u, projectSlug)
               IN  reqs' = [started EXCEPT
                              ![r].pc = "tx",
                              ![r].loc = [jobId |-> body.jobId,
                                          name |-> normalizedProjectName,
                                          slug |-> projectSlug,
                                          resultUrl |-> resultUrl,
                                          allGeneratedUrls |-> job.falResultUrls,
                                          existingProject |-> existingProject,
                                          latestVersionNumber |->
                                              IF existingProject = NoId THEN 0
                                              ELSE projects[existingProject].latestVersionNumber]]

\* lines 411-451, the writes of the transaction body.  faultAt = k makes the k-th
\* write fail for a reason of the database's own; 0 is no such fault.
saveTransactionBody(db, u, loc, faultAt) ==
    LET start == [db |-> db, ok |-> TRUE]
        versionNumber == IF loc.existingProject # NoId THEN loc.latestVersionNumber + 1 ELSE 1
        projectId == IF loc.existingProject # NoId THEN loc.existingProject
                     ELSE Len(db.projects) + 1
        afterProject ==
            IF loc.existingProject # NoId
            THEN TxStep(start, faultAt = 1,
                     Db([db.projects EXCEPT ![projectId].name = loc.name,
                                            ![projectId].latestVersionNumber = versionNumber],
                        db.versions))
            ELSE TxStep(start,
                     faultAt = 1 \/ ProjectKeyTaken(db.projects, u, loc.slug),
                     Db(Append(db.projects, NewProject(u, loc.name, loc.slug, versionNumber)),
                        db.versions))
        afterVersion ==
            TxStep(afterProject,
                   faultAt = 2 \/ VersionKeyTaken(afterProject.db.versions, projectId, versionNumber),
                   Db(afterProject.db.projects,
                      afterProject.db.versions \cup
                          {NewVersion(projectId, versionNumber, loc.jobId, loc.resultUrl,
                                      loc.allGeneratedUrls, NoSources)}))
    IN  afterVersion @@ [projectId |-> projectId, versionNumber |-> versionNumber]

SaveCommit(r, faultAt) ==
    /\ reqs[r].kind = "save" /\ reqs[r].pc = "tx"
    /\ LET before == Db(projects, versions)
           run == saveTransactionBody(before, reqs[r].user, reqs[r].loc, faultAt)
           after == transaction(before, run)
       IN  /\ projects' = after.projects
           /\ versions' = after.versions
           /\ reqs' = IF run.ok
                      THEN Finish(r, Resp(200, ""),
                                  [projectId |-> run.projectId,
                                   versionNumber |-> run.versionNumber,
                                   existingProject |-> reqs[r].loc.existingProject])
                      ELSE Finish(r, Resp(500, "LibrarySaveFailed"),
                                  [projectId |-> reqs[r].loc.existingProject,
                                   versionNumber |-> 0,
                                   existingProject |-> reqs[r].loc.existingProject])
    /\ UNCHANGED <<jobs, gallery, cloud, archive, extracted>>

\* ---------------------------------------------------------------------------
\* Archives
\* ---------------------------------------------------------------------------
File(path, bytes) == [name |-> path, dir |-> FALSE, bytes |-> bytes]
Folder(path) == [name |-> path \o <<"/">>, dir |-> TRUE, bytes |-> <<>>]
Path(segments) == join(segments, <<"/">>)

x_png == <<"x",".","p","n","g">>
y_JPG == <<"y",".","J","P","G">>
z_webp == <<"z",".","w","e","b","p">>
w_jpeg == <<"w",".","j","p","e","g">>
notes_txt == <<"n",".","t","x","t">>
dot_x_png == <<".","_","x",".","p","n","g">>
ROOT_upper == <<"R","O","O","T">>
MACOSX == <<"_","_","M","A","C","O","S","X">>

Digit(d) ==
    CASE d = 0 -> "0" [] d = 1 -> "1" [] d = 2 -> "2" [] d = 3 -> "3" [] d = 4 -> "4"
      [] d = 5 -> "5" [] d = 6 -> "6" [] d = 7 -> "7" [] d = 8 -> "8" [] d = 9 -> "9"

\* "p01", "p02", ...: folder names with pairwise different slugs
BulkFolder(i) == <<"p", Digit(i \div 10), Digit(i % 10)>>
BulkFile(i) == <<"f", Digit(i \div 10), Digit(i % 10)>> \o <<".","p","n","g">>

\* an archive of `folders` project folders holding `perFolder` PNG files each
Bulk(folders, perFolder) ==
    [j \in 1..(folders * perFolder) |->
        File(Path(<<BulkFolder(((j - 1) \div perFolder) + 1),
                    BulkFile(((j - 1) % perFolder) + 1)>>), <<1>>)]

\* the archives uploaded to POST /api/library/batch-upload
ArchiveIds == {"one", "two", "next", "other", "none", "many", "big"}

ArchiveTable ==
    [id \in ArchiveIds |->
        CASE id = "one" -> <<File(Path(<<name_abc, x_png>>), <<1>>)>>
          [] id = "two" -> <<File(Path(<<root, name_Abc_sp, x_png>>), <<1>>),
                             File(Path(<<root, name_xyz, y_JPG>>), <<2>>)>>
          [] id = "next" -> <<File(Path(<<name_abc, z_webp>>), <<3>>)>>
          [] id = "other" -> <<File(Path(<<name_xyz, y_JPG>>), <<2>>)>>
          [] id = "none" -> <<Folder(name_abc), File(Path(<<name_abc, notes_txt>>), <<1>>)>>
          [] id = "many" ->
                 [j \in 1..(MAX_IMAGES_PER_ARCHIVE + 1) |->
                     File(Path(<<name_abc, BulkFile(j)>>), <<1>>)]
          [] id = "big" -> Bulk((MAX_IMAGES_PER_ARCHIVE \div MAX_IMAGES_PER_PROJECT) + 1,
                                MAX_IMAGES_PER_PROJECT)]

\* extractArchiveProjects(zipCandidate) of line 182, for each archive
ExtractedTable == [id \in ArchiveIds |-> extractArchiveProjects(ArchiveTable[id])]

\* ---------------------------------------------------------------------------
\* POST /api/library/batch-upload: src/app/api/library/batch-upload/route.ts, 150-335
\* ---------------------------------------------------------------------------
\* String.prototype.endsWith
endsWith(s, p) == Len(s) >= Len(p) /\ SubSeq(s, Len(s) - Len(p) + 1, Len(s)) = p

application_zip == <<"a","p","p","l","i","c","a","t","i","o","n","/","z","i","p">>
text_plain == <<"t","e","x","t","/","p","l","a","i","n">>
a_zip == <<"a",".","z","i","p">>
A_ZIP_upper == <<"A",".","Z","I","P">>

ZIP_MIME_TYPES ==
    { application_zip,
      <<"a","p","p","l","i","c","a","t","i","o","n","/",
        "x","-","z","i","p","-","c","o","m","p","r","e","s","s","e","d">>,
      <<"a","p","p","l","i","c","a","t","i","o","n","/","x","-","z","i","p">>,
      <<"m","u","l","t","i","p","a","r","t","/","x","-","z","i","p">> }
ZIP_EXTENSIONS == { <<".","z","i","p">> }

\* lines 45-53: the declared type or the file name decides, the content is not read
isZipFile(file) ==
    \/ file.type # <<>> /\ toLowerCase(file.type) \in ZIP_MIME_TYPES
    \/ \E extension \in ZIP_EXTENSIONS : endsWith(toLowerCase(file.name), extension)

\* request bodies that carry no archive that can be read: a body that is not
\* form data, a form without the "file" field, a text file, a file named as a
\* ZIP archive that is no ZIP container, and a ZIP archive with an entry whose
\* compressed data is damaged
BrokenUploads == {"noform", "nofile", "text", "corrupt", "damaged"}
UploadIds == ArchiveIds \cup BrokenUploads

\* what the handler sees of an upload: whether request.formData() parses, the
\* "file" field, whether JSZip.loadAsync and entry.async can read it
UploadTable ==
    [id \in UploadIds |->
        CASE id = "noform" -> [form |-> FALSE, hasFile |-> FALSE, type |-> <<>>,
                               name |-> <<>>, container |-> FALSE, entries |-> FALSE]
          [] id = "nofile" -> [form |-> TRUE, hasFile |-> FALSE, type |-> <<>>,
                               name |-> <<>>, container |-> FALSE, entries |-> FALSE]
          [] id = "text" -> [form |-> TRUE, hasFile |-> TRUE, type |-> text_plain,
                             name |-> notes_txt, container |-> FALSE, entries |-> FALSE]
          [] id = "corrupt" -> [form |-> TRUE, hasFile |-> TRUE, type |-> <<>>,
                                name |-> A_ZIP_upper, container |-> FALSE,
                                entries |-> FALSE]
          [] id = "damaged" -> [form |-> TRUE, hasFile |-> TRUE, type |-> application_zip,
                                name |-> notes_txt, container |-> TRUE, entries |-> FALSE]
          [] OTHER -> [form |-> TRUE, hasFile |-> TRUE, type |-> application_zip,
                       name |-> a_zip, container |-> TRUE, entries |-> TRUE]]

\* the answer of the framework to an exception that leaves the handler: status
\* 500 without a body of the handler
UnhandledError == Resp(500, "")

\* lines 151-207: session, form data, file, extraction, the two count checks;
\* JSZip.loadAsync (line 85) and entry.async (line 117) throw on what they cannot
\* read, and line 182 is outside the try of line 209
BatchStartWith(r, u, id) ==
    /\ CanStart(r)
    /\ UNCHANGED <<projects, versions, jobs, gallery, cloud, archive, extracted>>
    /\ LET started == [reqs EXCEPT ![r].kind = "batch", ![r].user = u,
                                   ![r].in = [archive |-> id]]
           fail(status, error) ==
               [started EXCEPT ![r].pc = "done", ![r].resp = Resp(status, error)]
           unauthorized == [fail(401, "Unauthorized") EXCEPT ![r].in = <<>>]
           upload == UploadTable[id]
       IN  IF u = NoUser THEN reqs' = unauthorized
           ELSE IF ~upload.form THEN reqs' = fail(400, "InvalidFormData")
           ELSE IF ~upload.hasFile THEN reqs' = fail(400, "MissingFile")
           ELSE IF ~isZipFile(upload) THEN reqs' = fail(400, "InvalidFileType")
           ELSE IF ~upload.container \/ ~upload.entries
           THEN reqs' = [started EXCEPT ![r].pc = "done", ![r].resp = UnhandledError]
           ELSE LET projectGroups == ExtractedTable[id]
                IN  IF totalImages(projectGroups) = 0 THEN reqs' = fail(400, "NoImages")
                    ELSE IF totalImages(projectGroups) > MAX_IMAGES_PER_ARCHIVE
                    THEN reqs' = fail(400, "TooManyImages")
                    ELSE reqs' = [started EXCEPT
                                    ![r].pc = "group",
                                    ![r].loc = [groups |-> projectGroups, g |-> 1,
                                                committed |-> <<>>]]

\* the loop going on to the next group after a failed one
batchCatchContinues(r, loc, error) ==
    IF loc.g < Len(loc.groups)
    THEN [reqs EXCEPT ![r].pc = "group",
                      ![r].loc = [groups |-> loc.groups, g |-> loc.g + 1,
                                  committed |-> loc.committed]]
    ELSE Finish(r, Resp(200, ""), loc)

\* the catch of lines 325-334: the response ends the request where it stands;
\* `error` is the caught error, which the handler logs
batchCatch(r, loc, error) ==
    Finish(r, Resp(500, "BatchUploadFailed"),
           [groups |-> loc.groups, g |-> loc.g, committed |-> loc.committed,
            error |-> error])

\* lines 214-243: the group's images go to the media host, then the transaction
\* starts with its findUnique
BatchGroupBegin(r, uploadOk) ==
    /\ reqs[r].kind = "batch" /\ reqs[r].pc = "group"
    /\ LET loc == reqs[r].loc
           group == loc.groups[loc.g]
           u == reqs[r].user
       IN  IF ~uploadOk
           THEN /\ reqs' = batchCatch(r, loc, "upload")
                /\ UNCHANGED cloud
           ELSE LET existingProject == findProjectByUserSlug(projects, u, group.slug)
                IN  /\ cloud' = cloud \cup UploadedPayloads(group.inputs)
                    /\ reqs' = [reqs EXCEPT
                          ![r].pc = "tx",
                          ![r].loc = loc @@
                              [uploadedImages |-> ensureImagesHaveCloudinaryUrls(group.inputs),
                               existingProject |-> existingProject,
                               latestVersionNumber |->
                                   IF existingProject = NoId THEN 0
                                   ELSE projects[existingProject].latestVersionNumber]]
    /\ UNCHANGED <<projects, versions, jobs, gallery, archive, extracted>>

\* the three source columns filled from the third image backwards
sourceImageUrlsReversed(uploadedImages) ==
    [i \in 1..3 |-> IF 4 - i <= Len(uploadedImages)
                    THEN uploadedImages[4 - i].uploadUrl ELSE NullStr]

\* [uploadedImages[0..2]?.uploadUrl ?? null]
sourceImageUrls(uploadedImages) ==
    [i \in 1..3 |-> IF i <= Len(uploadedImages) THEN uploadedImages[i].uploadUrl ELSE NullStr]

\* lines 245-282, the writes of the transaction body
batchTransactionBody(db, u, group, loc, faultAt) ==
    LET start == [db |-> db, ok |-> TRUE]
        projectId == IF loc.existingProject # NoId THEN loc.existingProject
                     ELSE Len(db.projects) + 1
        nextVersionNumber == loc.latestVersionNumber + 1
        afterProject ==
            IF loc.existingProject # NoId THEN start
            ELSE TxStep(start,
                     faultAt = 1 \/ ProjectKeyTaken(db.projects, u, group.slug),
                     Db(Append(db.projects, NewProject(u, group.name, group.slug, 0)),
                        db.versions))
        afterVersion ==
            TxStep(afterProject,
                   faultAt = 2 \/ VersionKeyTaken(afterProject.db.versions, projectId,
                                                  nextVersionNumber),
                   Db(afterProject.db.projects,
                      afterProject.db.versions \cup
                          {NewVersion(projectId, nextVersionNumber, NoId, <<>>, <<>>,
                                      sourceImageUrls(loc.uploadedImages))}))
        afterUpdate ==
            TxStep(afterVersion, faultAt = 3,
                   Db([afterVersion.db.projects EXCEPT
                          ![projectId].name = group.name,
                          ![projectId].latestVersionNumber = nextVersionNumber,
                          ![projectId].librarySelected = TRUE,
                          ![projectId].libraryGenerationStatus = "WAITING",
                          ![projectId].libraryGenerationJobId = NoId,
                          ![projectId].libraryGenerationQueuedAt = FALSE,
                          ![projectId].libraryGenerationCompletedAt = FALSE],
                      afterVersion.db.versions))
    IN  afterUpdate @@ [projectId |-> projectId, versionNumber |-> nextVersionNumber]

\* lines 235-288 from the first write to the commit; a failure ends the request
\* in the catch of lines 325-334
BatchGroupCommit(r, faultAt) ==
    /\ reqs[r].kind = "batch" /\ reqs[r].pc = "tx"
    /\ LET loc == reqs[r].loc
           before == Db(projects, versions)
           run == batchTransactionBody(before, reqs[r].user, loc.groups[loc.g], loc, faultAt)
           after == transaction(before, run)
       IN  /\ projects' = after.projects
           /\ versions' = after.versions
           /\ reqs' = IF run.ok
                      THEN [reqs EXCEPT
                              ![r].pc = "gallery",
                              ![r].loc = [groups |-> loc.groups, g |-> loc.g,
                                          committed |-> Append(loc.committed,
                                              [projectId |-> run.projectId,
                                               versionNumber |-> run.versionNumber,
                                               existingProject |-> loc.existingProject]),
                                          uploadedImages |-> loc.uploadedImages]]
                      ELSE batchCatch(r, loc, "transaction")
    /\ UNCHANGED <<jobs, gallery, cloud, archive, extracted>>

\* lines 290-334: gallery rows of the group, then the next group or the response
BatchGroupGallery(r) ==
    /\ reqs[r].kind = "batch" /\ reqs[r].pc = "gallery"
    /\ LET loc == reqs[r].loc
           group == loc.groups[loc.g]
           base == [groups |-> loc.groups, g |-> loc.g + 1, committed |-> loc.committed]
       IN  /\ gallery' = persistGalleryUploads(gallery,
                            [userId |-> reqs[r].user, jobId |-> NoId,
                             projectId |-> loc.committed[Len(loc.committed)].projectId,
                             isSourceAsset |-> TRUE],
                            group.inputs, loc.uploadedImages)
           /\ reqs' = IF loc.g < Len(loc.groups)
                      THEN [reqs EXCEPT ![r].pc = "group", ![r].loc = base]
                      ELSE Finish(r, Resp(200, ""), base)
    /\ UNCHANGED <<projects, versions, jobs, cloud, archive, extracted>>

\* ---------------------------------------------------------------------------
\* POST /api/library/generate-selection: src/unnamed/part_006
\* ---------------------------------------------------------------------------
REQUIRED_IMAGE_COUNT == 3

\* the highest-numbered version of a project: versions orderBy desc, take 1
latestVersionOf(vs, projectId) ==
    LET own == { v \in vs : v.projectId = projectId }
    IN  IF own = {} THEN {}
        ELSE { CHOOSE v \in own : \A w \in own : w.versionNumber <= v.versionNumber }

RECURSIVE filterUrls(_)
filterUrls(urls) ==
    IF urls = <<>> THEN <<>>
    ELSE IF Head(urls) = NullStr \/ Head(urls) = <<>> THEN filterUrls(Tail(urls))
    ELSE <<Head(urls)>> \o filterUrls(Tail(urls))

\* uploadUrl of the project's source assets, in creation order
RECURSIVE sourceAssetUrls(_, _)
sourceAssetUrls(table, projectId) ==
    IF table = <<>> THEN <<>>
    ELSE (IF Head(table).projectId = projectId /\ Head(table).isSourceAsset
          THEN <<Head(table).uploadUrl>> ELSE <<>>)
         \o sourceAssetUrls(Tail(table), projectId)

\* buildInputsFromAssets, as the upload URLs of the inputs it returns
buildInputsFromAssets(galleryUrls, latestVersions) ==
    LET galleryInputs == sliceTo(filterUrls(galleryUrls), REQUIRED_IMAGE_COUNT)
        versionSources ==
            IF latestVersions = {} THEN <<>>
            ELSE filterUrls((CHOOSE v \in latestVersions : TRUE).sources)
        base == IF galleryInputs # <<>> THEN galleryInputs
                ELSE sliceTo(versionSources, REQUIRED_IMAGE_COUNT)
    IN  IF base = <<>> THEN <<>>
        ELSE [i \in 1..REQUIRED_IMAGE_COUNT |->
                 IF i <= Len(base) THEN base[i] ELSE base[Len(base)]]

\* one element of the result of fetchProjects
ProjectWithAssets(ps, vs, table, id) ==
    [id |-> id, name |-> ps[id].name, slug |-> ps[id].slug,
     latestVersionNumber |-> ps[id].latestVersionNumber,
     inputs |-> buildInputsFromAssets(sourceAssetUrls(table, id), latestVersionOf(vs, id))]

\* the selection without its filter on libraryGenerationStatus
fetchProjectsOfAnyStatus(ps, userId, projectIds) ==
    { id \in 1..Len(ps) : ps[id].userId = userId /\ id \in projectIds }

\* the ids that fetchProjects(userId, projectIds) selects
fetchProjects(ps, userId, projectIds) ==
    { id \in 1..Len(ps) :
        /\ ps[id].userId = userId
        /\ ps[id].libraryGenerationStatus \in {"WAITING", "FAILED"}
        /\ id \in projectIds }

\* the orders in which a set of ids can come back (orderBy updatedAt desc)
Orders(ids) ==
    { q \in [1..Cardinality(ids) -> ids] : \A i, j \in DOMAIN q : i # j => q[i] # q[j] }

\* lines 309-359: session, body, fetchProjects
GenSelStartWith(r, u, projectIds) ==
    /\ CanStart(r)
    /\ UNCHANGED <<projects, versions, jobs, gallery, cloud, archive, extracted>>
    /\ LET started == [reqs EXCEPT ![r].kind = "gensel", ![r].user = u,
                                   ![r].in = [projectIds |-> projectIds]]
           fail(status, error) ==
               [started EXCEPT ![r].pc = "done", ![r].resp = Resp(status, error)]
           unauthorized == [fail(401, "Unauthorized") EXCEPT ![r].in = <<>>]
           found == fetchProjects(projects, u, projectIds)
       IN  IF u = NoUser THEN reqs' = unauthorized
           ELSE IF projectIds = {} THEN reqs' = fail(400, "NothingSelected")
           ELSE IF found = {} THEN reqs' = fail(400, "NothingSelected")
           ELSE \E order \in Orders(found) :
                    reqs' = [started EXCEPT
                               ![r].pc = "gs_job",
                               ![r].loc = [queue |-> [i \in DOMAIN order |->
                                               ProjectWithAssets(projects, versions, gallery,
                                                                 order[i])],
                                           i |-> 1, jobId |-> NoId, resultUrls |-> <<>>]]

\* the next project of the loop of lines 368-378, or the response
GenSelAdvance(r, rs) ==
    LET loc == rs[r].loc
    IN  IF loc.i < Len(loc.queue)
        THEN [rs EXCEPT ![r].pc = "gs_job",
                        ![r].loc = [queue |-> loc.queue, i |-> loc.i + 1,
                                    jobId |-> NoId, resultUrls |-> <<>>]]
        ELSE [rs EXCEPT ![r].pc = "done", ![r].resp = Resp(200, ""),
                        ![r].loc = [queue |-> loc.queue, i |-> loc.i,
                                    jobId |-> NoId, resultUrls |-> <<>>]]

\* the catch of lines 283-305
genSelCatchJobs(js, jobId) ==
    IF jobId # NoId THEN [js EXCEPT ![jobId].status = "FAILED"] ELSE js

genSelCatchProjects(ps, projectId, jobId) ==
    [ps EXCEPT ![projectId].libraryGenerationStatus = "FAILED",
               ![projectId].libraryGenerationCompletedAt = TRUE,
               ![projectId].libraryGenerationJobId = jobId]

\* lines 159-206: inputs, then the PENDING job
GenSelCreateJob(r) ==
    /\ reqs[r].kind = "gensel" /\ reqs[r].pc = "gs_job"
    /\ LET loc == reqs[r].loc
           project == loc.queue[loc.i]
       IN  IF project.inputs = <<>>
           THEN /\ projects' = genSelCatchProjects(projects, project.id, NoId)
                /\ reqs' = GenSelAdvance(r, reqs)
                /\ UNCHANGED jobs
           ELSE /\ jobs' = Append(jobs, NewJob(reqs[r].user, project.name, project.slug,
                                               project.inputs))
                /\ reqs' = [reqs EXCEPT ![r].pc = "gs_mark", ![r].loc.jobId = Len(jobs) + 1]
                /\ UNCHANGED projects
    /\ UNCHANGED <<versions, gallery, cloud, archive, extracted>>

\* lines 208-220: the project is GENERATING, the job RUNNING
GenSelMarkRunning(r) ==
    /\ reqs[r].kind = "gensel" /\ reqs[r].pc = "gs_mark"
    /\ LET loc == reqs[r].loc
           project == loc.queue[loc.i]
       IN  /\ projects' = [projects EXCEPT
                              ![project.id].libraryGenerationStatus = "GENERATING",
                              ![project.id].libraryGenerationJobId = loc.jobId,
                              ![project.id].libraryGenerationQueuedAt = TRUE]
           /\ jobs' = [jobs EXCEPT ![loc.jobId].status = "RUNNING"]
           /\ reqs' = [reqs EXCEPT ![r].pc = "gs_flow"]
    /\ UNCHANGED <<versions, gallery, cloud, archive, extracted>>

\* lines 222-261: the workflow, the uploads of its results, the version row
GenSelWorkflow(r, outcome) ==
    /\ reqs[r].kind = "gensel" /\ reqs[r].pc = "gs_flow"
    /\ LET loc == reqs[r].loc
           project == loc.queue[loc.i]
           versionNumber == project.latestVersionNumber + 1
           resultUrls == [i \in 1..(IF outcome = "ok1" THEN 1 ELSE 2) |->
                             ResultUrl(FalUrls(loc.jobId, 2)[i])]
       IN  IF \/ outcome \in {"throws", "nourls", "uploadfails"}
              \/ VersionKeyTaken(versions, project.id, versionNumber)
           THEN /\ jobs' = genSelCatchJobs(jobs, loc.jobId)
                /\ projects' = genSelCatchProjects(projects, project.id, loc.jobId)
                /\ reqs' = GenSelAdvance(r, reqs)
                /\ cloud' = IF outcome \in {"ok1", "ok2"}
                            THEN cloud \cup { FalUrls(loc.jobId, 2)[i] : i \in 1..Len(resultUrls) }
                            ELSE cloud
                /\ UNCHANGED versions
           ELSE /\ cloud' = cloud \cup { FalUrls(loc.jobId, 2)[i] : i \in 1..Len(resultUrls) }
                /\ versions' = versions \cup
                       {NewVersion(project.id, versionNumber, loc.jobId, resultUrls[1],
                                   resultUrls, project.inputs)}
                /\ reqs' = [reqs EXCEPT ![r].pc = "gs_proj", ![r].loc.resultUrls = resultUrls]
                /\ UNCHANGED <<jobs, projects>>
    /\ UNCHANGED <<gallery, archive, extracted>>

\* lines 263-271: the project is COMPLETED at the new version number; `fault` is
\* the database refusing this update, which ends in the catch of lines 283-305
GenSelProjectCompleted(r, fault) ==
    /\ reqs[r].kind = "gensel" /\ reqs[r].pc = "gs_proj"
    /\ LET loc == reqs[r].loc
           project == loc.queue[loc.i]
       IN  IF fault
           THEN /\ jobs' = genSelCatchJobs(jobs, loc.jobId)
                /\ projects' = genSelCatchProjects(projects, project.id, loc.jobId)
                /\ reqs' = GenSelAdvance(r, reqs)
           ELSE /\ projects' = [projects EXCEPT
                              ![project.id].latestVersionNumber = project.latestVersionNumber + 1,
                              ![project.id].libraryGenerationStatus = "COMPLETED",
                              ![project.id].libraryGenerationCompletedAt = TRUE,
                              ![project.id].libraryGenerationJobId = loc.jobId]
                /\ reqs' = [reqs EXCEPT ![r].pc = "gs_succ"]
                /\ UNCHANGED jobs
    /\ UNCHANGED <<versions, gallery, cloud, archive, extracted>>

\* lines 273-282: the job is SUCCESS with its result URLs
GenSelJobSuccess(r) ==
    /\ reqs[r].kind = "gensel" /\ reqs[r].pc = "gs_succ"
    /\ LET loc == reqs[r].loc
       IN  /\ jobs' = [jobs EXCEPT ![loc.jobId].status = "SUCCESS",
                                   ![loc.jobId].falResultUrl = loc.resultUrls[1],
                                   ![loc.jobId].falResultUrls = loc.resultUrls]
           /\ reqs' = GenSelAdvance(r, reqs)
    /\ UNCHANGED <<projects, versions, gallery, cloud, archive, extracted>>

\* ---------------------------------------------------------------------------
\* POST /api/library/projects/[projectId]/select-version:
\* src/app/api/library/projects/[projectId]/select-version/route.ts, 17-108
\* ---------------------------------------------------------------------------
NotAUrl == <<"txt", 0>>

\* z.object({ imageUrl: z.string().url() })
bodySchema(body) == body.imageUrl[1] \in {"cld", "res", "ext", "fal"}

\* the project looked up by its id alone
findProjectOfAnyUser(ps, projectId, userId) ==
    IF projectId \in 1..Len(ps) THEN projectId ELSE NoId

\* prisma.coverProject.findFirst({ where: { id: projectId, userId } }), NoId when none
findProject(ps, projectId, userId) ==
    IF projectId \in 1..Len(ps) /\ ps[projectId].userId = userId THEN projectId ELSE NoId

\* the check of lines 56-64 left out
statusIsCompletedSkipped(status) == TRUE

\* project.libraryGenerationStatus !== "COMPLETED", negated
statusIsCompleted(status) == status = "COMPLETED"

\* lines 18-75: session, body, the project with its latest version, the status
SelectStartWith(r, u, body) ==
    /\ CanStart(r)
    /\ UNCHANGED <<projects, versions, jobs, gallery, cloud, archive, extracted>>
    /\ LET started == [reqs EXCEPT ![r].kind = "select", ![r].user = u, ![r].in = body]
           fail(status, error) ==
               [started EXCEPT ![r].pc = "done", ![r].resp = Resp(status, error)]
           unauthorized == [fail(401, "Unauthorized") EXCEPT ![r].in = <<>>]
           project == findProject(projects, body.projectId, u)
           latest == latestVersionOf(versions, body.projectId)
       IN  IF u = NoUser THEN reqs' = unauthorized
           ELSE IF ~bodySchema(body) THEN reqs' = fail(400, "InvalidPayload")
           ELSE IF project = NoId THEN reqs' = fail(404, "NotFound")
           ELSE IF ~statusIsCompleted(projects[project].libraryGenerationStatus)
           THEN reqs' = fail(400, "NotReady")
           ELSE IF latest = {} THEN reqs' = fail(404, "MissingVersion")
           ELSE reqs' = [started EXCEPT
                           ![r].pc = IF projects[project].libraryGenerationJobId # NoId
                                     THEN "sv_job" ELSE "sv_update",
                           ![r].loc = [jobId |-> projects[project].libraryGenerationJobId,
                                       versionNumber |->
                                           (CHOOSE v \in latest : TRUE).versionNumber]]

\* lines 83-97: whether the job's falResultUrls allow the URL
allowedUrls(job, imageUrl) ==
    LET allowed == job.falResultUrls
    IN  ~(allowed # <<>> /\ \A i \in 1..Len(allowed) : allowed[i] # imageUrl)

\* lines 77-98: the project's generation job and its result URLs
SelectCheckJob(r) ==
    /\ reqs[r].kind = "select" /\ reqs[r].pc = "sv_job"
    /\ reqs' = IF allowedUrls(jobs[reqs[r].loc.jobId], reqs[r].in.imageUrl)
               THEN [reqs EXCEPT ![r].pc = "sv_update"]
               ELSE Finish(r, Resp(400, "InvalidSelection"), reqs[r].loc)
    /\ UNCHANGED <<projects, versions, jobs, gallery, cloud, archive, extracted>>

\* coverVersion.update({ where: { id }, data: { selectedImageUrl } })
updateSelectedImageUrl(vs, projectId, versionNumber, imageUrl) ==
    { IF v.projectId = projectId /\ v.versionNumber = versionNumber
      THEN [v EXCEPT !.selectedImageUrl = imageUrl] ELSE v : v \in vs }

\* lines 100-107: the version read at the start gets the URL
SelectUpdate(r) ==
    /\ reqs[r].kind = "select" /\ reqs[r].pc = "sv_update"
    /\ versions' = updateSelectedImageUrl(versions, reqs[r].in.projectId,
                                          reqs[r].loc.versionNumber, reqs[r].in.imageUrl)
    /\ reqs' = Finish(r, Resp(200, ""), reqs[r].loc)
    /\ UNCHANGED <<projects, jobs, gallery, cloud, archive, extracted>>

\* ---------------------------------------------------------------------------
\* Specifications
\* ---------------------------------------------------------------------------
ReqSlots == 1..MaxReqs
GenerateSlots == 1..MaxGenerateReqs

InitDb ==
    /\ projects = <<>>
    /\ versions = {}
    /\ jobs = <<>>
    /\ gallery = <<>>
    /\ cloud = {}

\* The whole service: MaxReqs requests, interleaved at their awaits
Init ==
    /\ InitDb
    /\ reqs = [r \in ReqSlots |-> IdleReq]
    /\ archive = <<>>
    /\ extracted = NotExtracted

\* the payloads of POST /api/generate in the runs of the whole service
ServicePayloads ==
    { GenPayload(name_abc, FirstImages(3), "preset"),
      GenPayload(name_blank, FirstImages(3), "preset") }

\* the workflow outcomes in the runs of the whole service
ServiceOutcomes == {"nourls", "ok2"}

ServiceGenerateStart(r) ==
    \E u \in SessionsFor(r), payload \in ServicePayloads :
        GenerateStartWith(r, u, payload, TRUE)

SaveStart(r) ==
    \E u \in SessionsFor(r), body \in SaveBodies(Len(jobs) + 1) :
        SaveStartWith(r, u, body)

\* the archives uploaded in the runs of the whole service
ServiceArchives == {"one", "two"}

BatchStart(r) ==
    \E u \in SessionsFor(r), id \in ServiceArchives : BatchStartWith(r, u, id)

GenSelStart(r) ==
    \E u \in SessionsFor(r), projectIds \in SUBSET (1..Len(projects)) :
        GenSelStartWith(r, u, projectIds)

\* faults of the database inside a transaction body: none, or at the k-th write
TxFaults == 0..3

Next ==
    \/ \E r \in ReqSlots : ServiceGenerateStart(r)
    \/ \E r \in ReqSlots : GenerateMarkRunning(r)
    \/ \E r \in ReqSlots, outcome \in ServiceOutcomes : GenerateWorkflow(r, outcome)
    \/ \E r \in ReqSlots : SaveStart(r)
    \/ \E r \in ReqSlots, faultAt \in TxFaults : SaveCommit(r, faultAt)
    \/ \E r \in ReqSlots : BatchStart(r)
    \/ \E r \in ReqSlots, uploadOk \in BOOLEAN : BatchGroupBegin(r, uploadOk)
    \/ \E r \in ReqSlots, faultAt \in TxFaults : BatchGroupCommit(r, faultAt)
    \/ \E r \in ReqSlots : BatchGroupGallery(r)
    \/ \E r \in ReqSlots : GenSelStart(r)
    \/ \E r \in ReqSlots : GenSelCreateJob(r)
    \/ \E r \in ReqSlots : GenSelMarkRunning(r)
    \/ \E r \in ReqSlots, outcome \in ServiceOutcomes : GenSelWorkflow(r, outcome)
    \/ \E r \in ReqSlots, fault \in BOOLEAN : GenSelProjectCompleted(r, fault)
    \/ \E r \in ReqSlots : GenSelJobSuccess(r)

Spec == Init /\ [][Next]_vars

\* POST /api/generate alone, over every payload shape
InitGenerate ==
    /\ InitDb
    /\ reqs = [r \in GenerateSlots |-> IdleReq]
    /\ archive = <<>>
    /\ extracted = NotExtracted

NextGenerate ==
    \/ \E r \in GenerateSlots : GenerateStart(r)
    \/ \E r \in GenerateSlots : GenerateMarkRunning(r)
    \/ \E r \in GenerateSlots, outcome \in WorkflowOutcomes : GenerateWorkflow(r, outcome)

SpecGenerate == InitGenerate /\ [][NextGenerate]_vars

\* POST /api/library/batch-upload alone, over every archive
BatchSlots == 1..MaxBatchReqs

InitBatch ==
    /\ InitDb
    /\ reqs = [r \in BatchSlots |-> IdleReq]
    /\ archive = <<>>
    /\ extracted = NotExtracted

NextBatch ==
    \/ \E r \in BatchSlots, u \in {NoUser, "u1"}, id \in UploadIds : BatchStartWith(r, u, id)
    \/ \E r \in BatchSlots, uploadOk \in BOOLEAN : BatchGroupBegin(r, uploadOk)
    \/ \E r \in BatchSlots, faultAt \in TxFaults : BatchGroupCommit(r, faultAt)
    \/ \E r \in BatchSlots : BatchGroupGallery(r)

SpecBatch == InitBatch /\ [][NextBatch]_vars

\* The service around a cover library that exists: the five handlers, with
\* select-version.  A behaviour starts from the empty database, or from the database as
\* one of two earlier runs leaves it: u1's upload of the archive "one", and
\* that upload followed by u1's generate-selection of the uploaded project.
LibrarySlots == 1..MaxLibraryReqs

uploadedGroup == ExtractedTable["one"][1]
uploadedImagesOfGroup == ensureImagesHaveCloudinaryUrls(uploadedGroup.inputs)

\* the rows of lines 245-282 after the upload ran alone on the empty database
UploadedDb ==
    batchTransactionBody(Db(<<>>, {}), "u1", uploadedGroup,
                         [existingProject |-> NoId, latestVersionNumber |-> 0,
                          uploadedImages |-> uploadedImagesOfGroup], 0).db

\* the gallery rows of lines 300-312 after that upload
UploadedGallery ==
    persistGalleryUploads(<<>>, [userId |-> "u1", jobId |-> NoId, projectId |-> 1,
                                 isSourceAsset |-> TRUE],
                          uploadedGroup.inputs, uploadedImagesOfGroup)

UploadedCloud == UploadedPayloads(uploadedGroup.inputs)

\* the inputs, results and rows of runGenerationForProject run alone on project 1
completedInputs ==
    buildInputsFromAssets(sourceAssetUrls(UploadedGallery, 1),
                          latestVersionOf(UploadedDb.versions, 1))
completedResultUrls == [i \in 1..2 |-> ResultUrl(FalUrls(1, 2)[i])]

CompletedJobs ==
    <<[NewJob("u1", UploadedDb.projects[1].name, UploadedDb.projects[1].slug,
              completedInputs)
         EXCEPT !.status = "SUCCESS",
                !.falResultUrl = completedResultUrls[1],
                !.falResultUrls = completedResultUrls]>>

CompletedDb ==
    Db([UploadedDb.projects EXCEPT
           ![1].latestVersionNumber = 2,
           ![1].libraryGenerationStatus = "COMPLETED",
           ![1].libraryGenerationJobId = 1,
           ![1].libraryGenerationQueuedAt = TRUE,
           ![1].libraryGenerationCompletedAt = TRUE],
       UploadedDb.versions \cup
           {NewVersion(1, 2, 1, completedResultUrls[1], completedResultUrls,
                       completedInputs)})

CompletedCloud == UploadedCloud \cup { FalUrls(1, 2)[i] : i \in 1..2 }

InitLibrary ==
    /\ reqs = [r \in LibrarySlots |-> IdleReq]
    /\ archive = <<>>
    /\ extracted = NotExtracted
    /\ \/ InitDb
       \/ /\ projects = UploadedDb.projects
          /\ versions = UploadedDb.versions
          /\ jobs = <<>>
          /\ gallery = UploadedGallery
          /\ cloud = UploadedCloud
       \/ /\ projects = CompletedDb.projects
          /\ versions = CompletedDb.versions
          /\ jobs = CompletedJobs
          /\ gallery = UploadedGallery
          /\ cloud = CompletedCloud

\* the sessions of the library's requests
LibrarySessions == {NoUser} \cup Users

\* the archives uploaded in the runs of the library
LibraryArchives == {"one", "next", "other"}

LibraryBatchStart(r) ==
    \E u \in LibrarySessions, id \in LibraryArchives : BatchStartWith(r, u, id)

LibraryGenSelStart(r) ==
    \E u \in LibrarySessions, projectIds \in SUBSET (1..Len(projects)) :
        GenSelStartWith(r, u, projectIds)

\* the bodies of select-version: the second result of a job, or another URL
SelectBodies ==
    [projectId : 1..Len(projects),
     imageUrl : {ForeignUrl, NotAUrl}
                    \cup { ResultUrl(FalUrls(j, 2)[2]) : j \in 1..Len(jobs) }]

SelectStart(r) ==
    \E u \in LibrarySessions, body \in SelectBodies : SelectStartWith(r, u, body)

LibrarySaveStart(r) ==
    \E u \in LibrarySessions, body \in SaveBodies(Len(jobs)) : SaveStartWith(r, u, body)

LibraryGenerateStart(r) ==
    \E u \in LibrarySessions :
        GenerateStartWith(r, u, GenPayload(name_abc, FirstImages(3), "preset"), TRUE)

NextLibrary ==
    \/ \E r \in LibrarySlots : LibraryBatchStart(r)
    \/ \E r \in LibrarySlots : BatchGroupBegin(r, TRUE)
    \/ \E r \in LibrarySlots : BatchGroupCommit(r, 0)
    \/ \E r \in LibrarySlots : BatchGroupGallery(r)
    \/ \E r \in LibrarySlots : LibraryGenSelStart(r)
    \/ \E r \in LibrarySlots : GenSelCreateJob(r)
    \/ \E r \in LibrarySlots : GenSelMarkRunning(r)
    \/ \E r \in LibrarySlots, outcome \in ServiceOutcomes : GenSelWorkflow(r, outcome)
    \/ \E r \in LibrarySlots, fault \in BOOLEAN : GenSelProjectCompleted(r, fault)
    \/ \E r \in LibrarySlots : GenSelJobSuccess(r)
    \/ \E r \in LibrarySlots : SelectStart(r)
    \/ \E r \in LibrarySlots : SelectCheckJob(r)
    \/ \E r \in LibrarySlots : SelectUpdate(r)
    \/ \E r \in LibrarySlots : LibrarySaveStart(r)
    \/ \E r \in LibrarySlots : SaveCommit(r, 0)
    \/ \E r \in LibrarySlots : LibraryGenerateStart(r)
    \/ \E r \in LibrarySlots : GenerateMarkRunning(r)
    \/ \E r \in LibrarySlots, outcome \in ServiceOutcomes : GenerateWorkflow(r, outcome)

SpecLibrary == InitLibrary /\ [][NextLibrary]_vars

\* extractArchiveProjects alone, over the archives of at most MaxEntries entries
\* with pairwise different paths
EntryPool ==
    { File(Path(<<name_abc, x_png>>), <<1>>),
      File(Path(<<name_abc, y_JPG>>), <<2>>),
      File(Path(<<name_abc, <<"s">>, w_jpeg>>), <<3>>),
      File(Path(<<ROOT_upper, name_Abc_sp, z_webp>>), <<4>>),
      File(name_abc \o <<"\\">> \o w_jpeg, <<5>>),
      File(Path(<<root, name_xyz, x_png>>), <<6>>),
      File(Path(<<name_xyz, notes_txt>>), <<7>>),
      File(Path(<<name_xyz, y_JPG>>), <<>>),
      File(Path(<<name_abc, dot_x_png>>), <<8>>),
      File(Path(<<MACOSX, name_abc, x_png>>), <<9>>),
      File(Path(<<root, x_png>>), <<10>>) }

InitArchive ==
    /\ InitDb
    /\ reqs = <<>>
    /\ archive = <<>>
    /\ extracted = NotExtracted

ArchiveAddEntry(entry) ==
    /\ ~extracted.done
    /\ Len(archive) < MaxEntries
    /\ \A i \in 1..Len(archive) : archive[i].name # entry.name
    /\ archive' = Append(archive, entry)
    /\ UNCHANGED <<projects, versions, jobs, gallery, cloud, reqs, extracted>>

ArchiveExtract ==
    /\ ~extracted.done
    /\ extracted' = [done |-> TRUE, groups |-> extractArchiveProjects(archive)]
    /\ UNCHANGED <<projects, versions, jobs, gallery, cloud, reqs, archive>>

NextArchive ==
    \/ \E entry \in EntryPool : ArchiveAddEntry(entry)
    \/ ArchiveExtract

SpecArchive == InitArchive /\ [][NextArchive]_vars

\* ---------------------------------------------------------------------------
\* Properties
\* ---------------------------------------------------------------------------
VersionsOf(vs, projectId) == { v \in vs : v.projectId = projectId }

\* C1: in every reachable state the version numbers of each cover project are
\* exactly 1..latestVersionNumber, each carried by one version
VersionNumbersAreSequential ==
    \A id \in 1..Len(projects) :
        /\ { v.versionNumber : v \in VersionsOf(versions, id) }
               = 1..projects[id].latestVersionNumber
        /\ Cardinality(VersionsOf(versions, id)) = projects[id].latestVersionNumber

\* the projects of a user that carry a slug
ProjectsWithSlug(ps, userId, slug) ==
    { id \in 1..Len(ps) : ps[id].userId = userId /\ ps[id].slug = slug }

\* the slug and the name that a save or a batch group in its transaction writes
WrittenSlug(req) ==
    IF req.kind = "save" THEN req.loc.slug ELSE req.loc.groups[req.loc.g].slug
WrittenName(req) ==
    IF req.kind = "save" THEN req.loc.name ELSE req.loc.groups[req.loc.g].name

\* the request's transaction commits in this step
Commits(r) ==
    /\ reqs[r].kind \in {"save", "batch"}
    /\ reqs[r].pc = "tx"
    /\ \/ reqs'[r].pc = "gallery"
       \/ reqs'[r].pc = "done" /\ reqs'[r].resp.status = 200

OneProjectPerUserAndSlug(ps) ==
    \A i, j \in 1..Len(ps) :
        ps[i].userId = ps[j].userId /\ ps[i].slug = ps[j].slug => i = j

\* a committed save or batch group whose slug the user already has appends one
\* version to that project and renames it; otherwise it creates the project
CommitAppendsOrCreates(r) ==
    LET u == reqs[r].user
        slug == WrittenSlug(reqs[r])
        existing == ProjectsWithSlug(projects, u, slug)
    IN  IF existing # {}
        THEN /\ Len(projects') = Len(projects)
             /\ \E id \in existing :
                   /\ projects'[id].name = WrittenName(reqs[r])
                   /\ \E v \in versions' \ versions :
                         /\ v.projectId = id
                         /\ versions' = versions \cup {v}
        ELSE /\ Len(projects') = Len(projects) + 1
             /\ projects'[Len(projects')].userId = u
             /\ projects'[Len(projects')].slug = slug
             /\ \E v \in versions' \ versions :
                   /\ v.projectId = Len(projects')
                   /\ versions' = versions \cup {v}

\* C2: a user never has two projects with one slug; a save or a batch group whose
\* slug the user already has appends a version to that project and updates its
\* name, and a project is created only when the user has none with that slug
OneProjectPerSlug ==
    [][ /\ OneProjectPerUserAndSlug(projects')
        /\ \A r \in DOMAIN reqs : Commits(r) => CommitAppendsOrCreates(r)
        /\ Len(projects') > Len(projects) =>
              \E r \in DOMAIN reqs :
                  /\ Commits(r)
                  /\ ProjectsWithSlug(projects, reqs[r].user, WrittenSlug(reqs[r])) = {} ]_vars

\* a batch group has been appended to a project that existed before it
OneProjectPerSlugWitness ==
    \E r \in DOMAIN reqs :
        /\ reqs[r].kind = "batch" /\ reqs[r].pc = "done" /\ reqs[r].resp.status = 200
        /\ \E k \in 1..Len(reqs[r].loc.committed) :
              LET c == reqs[r].loc.committed[k]
              IN  /\ c.existingProject # NoId
                  /\ c.versionNumber = 2
                  /\ Cardinality(VersionsOf(versions, c.projectId)) = 2

\* the entries of an archive that the import accepts for a project slug
AcceptedFor(entries, slug) ==
    { i \in 1..Len(entries) :
        /\ entryInput(entries[i], i) # <<>>
        /\ entryInput(entries[i], i)[1].slug = slug }

\* the first n members of a set of entry positions
FirstOf(positions, n) ==
    { i \in positions : Cardinality({ j \in positions : j < i }) < n }

\* C3: every group returned by extractArchiveProjects holds at least 1 and at most
\* 3 images, the first 3 accepted entries of its project in archive order; the
\* further ones are discarded
GroupsHoldFirstThree ==
    extracted.done =>
        \A k \in 1..Len(extracted.groups) :
            LET group == extracted.groups[k]
                n == Len(group.inputs)
            IN  /\ n >= 1
                /\ n <= 3
                /\ { group.inputs[m].id : m \in 1..n } = FirstOf(AcceptedFor(archive, group.slug), 3)
                /\ \A m \in 1..(n - 1) : group.inputs[m].id < group.inputs[m + 1].id
                /\ \A m \in 1..n :
                      group.inputs[m].sizeBytes = Len(archive[group.inputs[m].id].bytes)

\* an archive with a fourth accepted image of one project has been extracted
GroupsHoldFirstThreeWitness ==
    /\ extracted.done
    /\ \E k \in 1..Len(extracted.groups) :
          /\ Cardinality(AcceptedFor(archive, extracted.groups[k].slug)) > 3
          /\ Len(extracted.groups[k].inputs) = 3

\* the segments of an entry's path
PathSegments(entry) ==
    filterNonEmpty(split([i \in 1..Len(entry.name) |->
                             IF entry.name[i] = "\\" THEN "/" ELSE entry.name[i]], "/"))

\* the position of the entry's project folder among its segments
FolderPosition(entry) ==
    LET segments == PathSegments(entry)
    IN  IF Len(segments) >= 1 /\ toLowerCase(segments[1]) = root THEN 2 ELSE 1

InsideProjectFolder(entry) == Len(PathSegments(entry)) > FolderPosition(entry)

ProjectFolder(entry) == PathSegments(entry)[FolderPosition(entry)]

HasImageExtension(entry) ==
    LET segments == PathSegments(entry)
        file == toLowerCase(segments[Len(segments)])
        dot == lastIndexOf(file, ".")
    IN  /\ dot > 0
        /\ SubSeq(file, dot + 1, Len(file)) \in
               { <<"p","n","g">>, <<"j","p","g">>, <<"j","p","e","g">>, <<"w","e","b","p">> }

\* the groups that hold the entry at a position of the archive
GroupsOf(groups, i) ==
    { k \in 1..Len(groups) : \E m \in 1..Len(groups[k].inputs) : groups[k].inputs[m].id = i }

\* an imported entry is a non-empty image file inside a project folder
ImportedOnlyIfImageInFolder(groups, entries) ==
    \A i \in 1..Len(entries) :
        GroupsOf(groups, i) # {} =>
            /\ ~entries[i].dir
            /\ Len(entries[i].bytes) > 0
            /\ InsideProjectFolder(entries[i])
            /\ HasImageExtension(entries[i])

\* entries whose folder names yield the same slug are in the same group
SameSlugSameProject(groups, entries) ==
    /\ \A k, l \in 1..Len(groups) : groups[k].slug = groups[l].slug => k = l
    /\ \A i \in 1..Len(entries) :
          \A k \in GroupsOf(groups, i) :
              groups[k].slug = slugifyProjectName(trim(ProjectFolder(entries[i])))

\* C4 as stated: an entry is imported only if it is a non-empty png, jpg, jpeg or
\* webp file inside a project folder (the top-level folder, or the folder below a
\* top-level "root" in any case); it is attributed to the project named by that
\* folder's trimmed name, and folders of one slug go to one project
ImportedIntoProjectNamedByFolder ==
    extracted.done =>
        /\ ImportedOnlyIfImageInFolder(extracted.groups, archive)
        /\ SameSlugSameProject(extracted.groups, archive)
        /\ \A i \in 1..Len(archive) :
              \A k \in GroupsOf(extracted.groups, i) :
                  extracted.groups[k].name = trim(ProjectFolder(archive[i]))

\* C4 as amended: the project of an imported entry is the one whose slug is the
\* slug of the folder's trimmed name, and it is named by the trimmed name of the
\* folder of its first imported entry
ImportedIntoProjectOfFolderSlug ==
    extracted.done =>
        /\ ImportedOnlyIfImageInFolder(extracted.groups, archive)
        /\ SameSlugSameProject(extracted.groups, archive)
        /\ \A k \in 1..Len(extracted.groups) :
              extracted.groups[k].name =
                  trim(ProjectFolder(archive[extracted.groups[k].inputs[1].id]))

\* two folders with different trimmed names and one slug have been imported, one
\* of them below "ROOT"
ImportedIntoProjectOfFolderSlugWitness ==
    /\ extracted.done
    /\ \E k \in 1..Len(extracted.groups) :
          \E m, n \in 1..Len(extracted.groups[k].inputs) :
              LET first == archive[extracted.groups[k].inputs[m].id]
                  second == archive[extracted.groups[k].inputs[n].id]
              IN  /\ trim(ProjectFolder(first)) # trim(ProjectFolder(second))
                  /\ FolderPosition(first) = 1
                  /\ FolderPosition(second) = 2

\* the request's transaction fails in this step
TransactionFails(r) ==
    /\ reqs[r].kind \in {"save", "batch"}
    /\ reqs[r].pc = "tx"
    /\ reqs'[r].pc = "done"
    /\ reqs'[r].resp.status = 500

\* C5: the writes of one library save and of one batch group are all-or-nothing:
\* when a database step fails, the projects and the versions are as before, and
\* no project is left without a version
TransactionsAreAllOrNothing ==
    [][ /\ \A r \in DOMAIN reqs :
              TransactionFails(r) => projects' = projects /\ versions' = versions
        /\ \A id \in 1..Len(projects') : VersionsOf(versions', id) # {} ]_vars

\* the transaction of a library save has failed
TransactionsAreAllOrNothingWitness ==
    \E r \in DOMAIN reqs :
        /\ reqs[r].kind = "save" /\ reqs[r].pc = "done"
        /\ reqs[r].resp = Resp(500, "LibrarySaveFailed")

\* a group of the request's archive fails in this step
GroupFails(r) ==
    /\ reqs[r].kind = "batch"
    /\ reqs'[r] # reqs[r]
    /\ \/ reqs[r].pc = "group" /\ reqs'[r].pc # "tx"
       \/ reqs[r].pc = "tx" /\ reqs'[r].pc # "gallery"

\* the rows committed for the earlier groups of the request are in place
CommittedRemain(loc, ps, vs) ==
    \A k \in 1..Len(loc.committed) :
        /\ loc.committed[k].projectId \in 1..Len(ps)
        /\ \E v \in vs : /\ v.projectId = loc.committed[k].projectId
                          /\ v.versionNumber = loc.committed[k].versionNumber

\* C6: when a project group fails (upload or database step), the batch upload
\* stops with 500 BatchUploadFailed, processes no later group, and what earlier
\* groups committed stays
FailedGroupStopsBatch ==
    [][ \A r \in DOMAIN reqs :
          /\ GroupFails(r) =>
                /\ reqs'[r].pc = "done"
                /\ reqs'[r].resp = Resp(500, "BatchUploadFailed")
                /\ reqs'[r].loc.g = reqs[r].loc.g
                /\ Len(reqs'[r].loc.committed) = reqs[r].loc.g - 1
                /\ projects' = projects
                /\ versions' = versions
                /\ CommittedRemain(reqs'[r].loc, projects', versions')
          /\ reqs[r].kind = "batch" /\ reqs[r].pc = "done" => reqs'[r] = reqs[r] ]_vars

\* the second group of an archive has failed in its transaction after the first
\* was committed
FailedGroupStopsBatchWitness ==
    \E r \in DOMAIN reqs :
        /\ reqs[r].kind = "batch" /\ reqs[r].pc = "done"
        /\ reqs[r].resp = Resp(500, "BatchUploadFailed")
        /\ reqs[r].loc.error = "transaction"
        /\ reqs[r].loc.g = 2
        /\ Len(reqs[r].loc.committed) = 1
        /\ CommittedRemain(reqs[r].loc, projects, versions)

\* a non-empty file with an image extension inside a project folder
IsSupportedImage(entry) ==
    /\ ~entry.dir
    /\ Len(entry.bytes) > 0
    /\ InsideProjectFolder(entry)
    /\ HasImageExtension(entry)

SupportedImages(entries) ==
    Cardinality({ i \in 1..Len(entries) : IsSupportedImage(entries[i]) })

SupportedTable == [id \in ArchiveIds |-> SupportedImages(ArchiveTable[id])]

\* an authenticated batch upload starts in this step
BatchArrives(r) ==
    /\ reqs[r].pc = "idle"
    /\ reqs'[r].kind = "batch"
    /\ reqs'[r].user # NoUser
    /\ reqs'[r].in.archive \in ArchiveIds

Rejected(r, error) ==
    /\ reqs'[r].pc = "done"
    /\ reqs'[r].resp = Resp(400, error)
    /\ UNCHANGED <<projects, versions, gallery, cloud>>

\* C7: an archive with more than 60 supported images under project folders is
\* rejected with 400 TooManyImages and one with none with 400 NoImages; nothing
\* is uploaded and no project, version or gallery image changes
ArchiveCountsAreEnforced ==
    [][ \A r \in DOMAIN reqs :
          BatchArrives(r) =>
              /\ SupportedTable[reqs'[r].in.archive] > 60 => Rejected(r, "TooManyImages")
              /\ SupportedTable[reqs'[r].in.archive] = 0 => Rejected(r, "NoImages") ]_vars

\* the requests that are working on a job
Holders(jobId) ==
    { r \in DOMAIN reqs :
        /\ reqs[r].kind = "generate"
        /\ reqs[r].pc \in {"created", "running"}
        /\ reqs[r].loc.jobId = jobId }

\* C8: every job created by POST /api/generate is SUCCESS or FAILED once the
\* response of its request is returned, whatever the outcome of the request
JobsAreSettledAtResponse ==
    \A jobId \in 1..Len(jobs) :
        Holders(jobId) = {} => jobs[jobId].status \in {"SUCCESS", "FAILED"}

\* the three workflow URLs of a list of uploaded images, the last one repeated
PaddedUrls(uploadedImages) ==
    [i \in 1..3 |->
        uploadedImages[IF i <= Len(uploadedImages) THEN i ELSE Len(uploadedImages)].uploadUrl]

ValidImage(image) == image.uploadUrl # NullStr \/ image.base64 # NullStr

\* an authenticated request with a valid name, a valid aspect ratio and valid
\* images, whose images the media host has stored
ValidGenerate(req) ==
    /\ req.kind = "generate"
    /\ req.user # NoUser
    /\ Len(req.in.projectName) >= 3
    /\ Len(req.in.projectName) <= 80
    /\ req.in.aspect = "preset"
    /\ \A i \in 1..Len(req.in.images) : ValidImage(req.in.images[i])

\* C9: an authenticated POST /api/generate with 1, 2 or 3 valid images creates a
\* job and calls the workflow with three URLs, the last image repeated; with 0
\* or more than 3 images it answers 400 ValidationError and creates no job
OneToThreeImagesAreGenerated ==
    \A r \in DOMAIN reqs :
        /\ ( /\ ValidGenerate(reqs[r])
             /\ Len(reqs[r].in.images) \in 1..3
             /\ "uploadedImages" \in DOMAIN reqs[r].loc )
           => /\ "jobId" \in DOMAIN reqs[r].loc
              /\ reqs[r].loc.jobId \in 1..Len(jobs)
              /\ reqs[r].loc.falInput = PaddedUrls(reqs[r].loc.uploadedImages)
        /\ ( /\ reqs[r].kind = "generate"
             /\ reqs[r].user # NoUser
             /\ Len(reqs[r].in.images) \notin 1..3 )
           => /\ reqs[r].resp = Resp(400, "ValidationError")
              /\ DOMAIN reqs[r].loc = {}

\* the save request moves in this step
SaveMoves(r) ==
    /\ reqs'[r].kind = "save"
    /\ reqs'[r].user # NoUser
    /\ reqs'[r] # reqs[r]

SaveRefused(r, status) ==
    /\ reqs'[r].pc = "done"
    /\ reqs'[r].resp.status = status
    /\ UNCHANGED <<projects, versions>>

\* what a save may do, given the job its body names
SaveRespectsJob(r) ==
    LET u == reqs'[r].user
        jobId == reqs'[r].in.jobId
        owned == jobId \in 1..Len(jobs) /\ jobs[jobId].userId = u
        ready == /\ owned
                 /\ jobs[jobId].status = "SUCCESS"
                 /\ jobs[jobId].falResultUrl # NullStr
        named == owned /\ trim(jobs[jobId].projectName) # <<>>
    IN  /\ jobId # 0 /\ ~owned => SaveRefused(r, 404)
        /\ owned /\ (~ready \/ ~named) => SaveRefused(r, 400)
        /\ projects' # projects \/ versions' # versions =>
              /\ ready
              /\ named
              /\ \E v \in versions' \ versions :
                    /\ versions' = versions \cup {v}
                    /\ v.thumbnailJobId = jobId

\* C10: POST /api/library/save creates a version only for a job of the caller
\* that is SUCCESS with a result URL and has a non-blank project name; it answers
\* 404 for a missing or foreign job and 400 for a job that is not SUCCESS or has
\* no name, and then creates and modifies no project or version
SaveOnlyOwnFinishedJobs ==
    [][ \A r \in DOMAIN reqs : SaveMoves(r) => SaveRespectsJob(r) ]_vars

\* a save has created the version of the caller's finished job
SaveOnlyOwnFinishedJobsWitness ==
    \E r \in DOMAIN reqs :
        /\ reqs[r].kind = "save" /\ reqs[r].pc = "done"
        /\ reqs[r].resp.status = 200
        /\ \E v \in versions : v.thumbnailJobId = reqs[r].in.jobId

\* the request r takes a step
Steps(r) == reqs'[r] # reqs[r]

\* the projects a generate-selection request works through
QueueIds(req) == { req.loc.queue[i].id : i \in 1..Len(req.loc.queue) }

\* generate-selection r fetches its projects in this step
GenSelFetches(r) ==
    /\ reqs[r].pc = "idle" /\ reqs'[r].kind = "gensel" /\ reqs'[r].user # NoUser

\* what r fetched belongs to the caller, is named in projectIds and is WAITING or
\* FAILED; a request that fetched nothing runs nothing
FetchedAreOwnNamedAndWaiting(r) ==
    IF reqs'[r].pc = "done" THEN reqs'[r].resp.status = 400
    ELSE \A id \in QueueIds(reqs'[r]) :
            /\ id \in 1..Len(projects)
            /\ projects[id].userId = reqs'[r].user
            /\ id \in reqs'[r].in.projectIds
            /\ projects[id].libraryGenerationStatus \in {"WAITING", "FAILED"}

\* a later step of generate-selection r writes only to the project it is at, to
\* versions of that project and to the job it created for it
GenSelWritesOnlyCurrent(r) ==
    LET loc == reqs[r].loc
        current == loc.queue[loc.i].id
    IN  /\ "queue" \in DOMAIN reqs'[r].loc /\ reqs'[r].loc.queue = loc.queue
        /\ Len(projects') = Len(projects)
        /\ \A id \in 1..Len(projects) : projects'[id] # projects[id] => id = current
        /\ \A v \in versions : v \in versions'
        /\ \A v \in versions' \ versions : v.projectId = current
        /\ \A j \in 1..Len(jobs) : jobs'[j] # jobs[j] => j = loc.jobId
        /\ Len(jobs') \in {Len(jobs), Len(jobs) + 1}
        /\ Len(jobs') = Len(jobs) + 1 =>
               /\ loc.jobId = NoId /\ reqs'[r].loc.jobId = Len(jobs')
               /\ jobs'[Len(jobs')].projectSlug = projects[current].slug

\* C11: generate-selection runs a generation only for projects that belong to
\* the caller, are named in projectIds and were WAITING or FAILED when fetched; no
\* other project (one that was GENERATING or COMPLETED, or another user's), none
\* of its versions and no other job is changed by the request.
GenSelRunsOnlyFetchedProjects ==
    [][\A r \in DOMAIN reqs :
          /\ GenSelFetches(r) => FetchedAreOwnNamedAndWaiting(r)
          /\ (reqs[r].kind = "gensel" /\ reqs[r].pc \notin {"idle", "done"} /\ Steps(r))
                 => GenSelWritesOnlyCurrent(r)]_vars

\* a generate-selection that named a COMPLETED project of the caller next to a
\* WAITING one has run for the second and left the first alone
GenSelRunsOnlyFetchedProjectsWitness ==
    \E r \in DOMAIN reqs :
        /\ reqs[r].kind = "gensel" /\ reqs[r].pc = "done" /\ reqs[r].resp.status = 200
        /\ \E id \in reqs[r].in.projectIds \ QueueIds(reqs[r]) :
              /\ projects[id].userId = reqs[r].user
              /\ projects[id].libraryGenerationStatus = "COMPLETED"
        /\ \E id \in QueueIds(reqs[r]) :
              /\ projects[id].libraryGenerationStatus = "COMPLETED"
              /\ projects[id].libraryGenerationJobId # NoId

\* select-version r reads its project in this step: the call has a session, a
\* valid body and names a project of the caller
SelectReads(r) ==
    /\ reqs[r].pc = "idle" /\ reqs'[r].kind = "select" /\ reqs'[r].user # NoUser
    /\ bodySchema(reqs'[r].in)
    /\ findProject(projects, reqs'[r].in.projectId, reqs'[r].user) # NoId

SelectSucceeds(r) ==
    /\ reqs'[r].kind = "select" /\ reqs[r].pc # "done"
    /\ reqs'[r].pc = "done" /\ reqs'[r].resp.status = 200

\* C12: select-version succeeds only if the project's library generation status
\* is COMPLETED when the call reads the project; a call for a project that is
\* WAITING, GENERATING or FAILED, also one reset to WAITING by a batch upload
\* after its generation, is answered 400 NotReady and changes no version.
SelectOnlyWhenCompleted ==
    [][\A r \in DOMAIN reqs :
          /\ SelectReads(r) =>
                IF projects[reqs'[r].in.projectId].libraryGenerationStatus = "COMPLETED"
                THEN reqs'[r].resp.error # "NotReady"
                ELSE /\ reqs'[r].pc = "done"
                     /\ reqs'[r].resp = Resp(400, "NotReady")
                     /\ versions' = versions
          /\ SelectSucceeds(r) =>
                /\ reqs[r].kind = "select" /\ reqs[r].pc = "sv_update"
          /\ (reqs[r].pc = "idle" /\ reqs'[r].kind = "select"
                /\ reqs'[r].pc \in {"sv_job", "sv_update"}) => SelectReads(r)]_vars

\* a project was generated, then reset to WAITING by a further upload, and a
\* select-version call for it was answered 400 NotReady
SelectOnlyWhenCompletedWitness ==
    \E r \in DOMAIN reqs :
        /\ reqs[r].kind = "select" /\ reqs[r].pc = "done"
        /\ reqs[r].resp = Resp(400, "NotReady")
        /\ LET id == reqs[r].in.projectId
           IN  /\ projects[id].libraryGenerationStatus = "WAITING"
               /\ \E v \in VersionsOf(versions, id) : v.thumbnailJobId # NoId
               /\ \E v \in latestVersionOf(versions, id) : v.thumbnailJobId = NoId

\* the result URLs of the library generation job of a project, none without a job
JobResultsOf(ps, js, id) ==
    IF ps[id].libraryGenerationJobId = NoId THEN {}
    ELSE LET urls == js[ps[id].libraryGenerationJobId].falResultUrls
         IN  { urls[i] : i \in 1..Len(urls) }

\* C13: after every successful select-version call the selectedImageUrl of the
\* project's latest version is one of the falResultUrls of the project's library
\* generation job, and a URL outside that job's output is answered 400
\* InvalidSelection with no version changed.
SelectedIsResultOfJob ==
    [][\A r \in DOMAIN reqs :
          /\ SelectSucceeds(r) =>
                \A v \in latestVersionOf(versions', reqs[r].in.projectId) :
                    v.selectedImageUrl \in JobResultsOf(projects', jobs', reqs[r].in.projectId)
          /\ (reqs[r].kind = "select" /\ reqs[r].pc = "sv_job" /\ Steps(r)
                /\ reqs[r].in.imageUrl \notin
                       JobResultsOf(projects, jobs, reqs[r].in.projectId))
                => /\ reqs'[r].pc = "done"
                   /\ reqs'[r].resp = Resp(400, "InvalidSelection")
                   /\ versions' = versions]_vars

\* C14: a successful select-version call changes only the selectedImageUrl of
\* the project's highest-numbered version: no version is created, every other
\* version, the projects and the jobs stay as they are.
SelectChangesOnlyLatestVersion ==
    [][\A r \in DOMAIN reqs :
          SelectSucceeds(r) =>
              /\ projects' = projects
              /\ jobs' = jobs
              /\ \E v \in latestVersionOf(versions, reqs[r].in.projectId) :
                    versions' = (versions \ {v}) \cup
                                    {[v EXCEPT !.selectedImageUrl = reqs[r].in.imageUrl]}]_vars

\* a step leaves alone every row that belongs to a user other than u, and the
\* rows it adds belong to u
OthersUntouched(u) ==
    /\ Len(projects') >= Len(projects)
    /\ \A id \in 1..Len(projects) :
          projects[id].userId # u => projects'[id] = projects[id]
    /\ \A id \in (Len(projects) + 1)..Len(projects') : projects'[id].userId = u
    /\ \A v \in (versions \ versions') \cup (versions' \ versions) :
          projects'[v.projectId].userId = u
    /\ Len(jobs') >= Len(jobs)
    /\ \A j \in 1..Len(jobs) : jobs[j].userId # u => jobs'[j] = jobs[j]
    /\ \A j \in (Len(jobs) + 1)..Len(jobs') : jobs'[j].userId = u
    /\ Len(gallery') >= Len(gallery)
    /\ \A g \in 1..Len(gallery) : gallery'[g] = gallery[g]
    /\ \A g \in (Len(gallery) + 1)..Len(gallery') : gallery'[g].userId = u

\* the projects and jobs a request has looked up belong to its user
HoldsOnlyOwn(req) ==
    LET loc == req.loc
        ownProject(id) == id = NoId \/ projects'[id].userId = req.user
        ownJob(j) == j = NoId \/ jobs'[j].userId = req.user
    IN  /\ "existingProject" \in DOMAIN loc => ownProject(loc.existingProject)
        /\ "jobId" \in DOMAIN loc => ownJob(loc.jobId)
        /\ "queue" \in DOMAIN loc => \A id \in QueueIds(req) : ownProject(id)
        /\ "committed" \in DOMAIN loc =>
               \A i \in 1..Len(loc.committed) : ownProject(loc.committed[i].projectId)
        /\ (req.kind = "select" /\ "versionNumber" \in DOMAIN loc) =>
               ownProject(req.in.projectId)

NoSharedChecksum(table) ==
    \A i, j \in 1..Len(table) :
        (i # j /\ table[i].userId = table[j].userId) => table[i].checksum # table[j].checksum

\* the gallery after the persistGalleryUploads call that request r makes in this
\* step is made once more with the same context and uploads
PersistedAgain(r) ==
    LET loc == reqs[r].loc
    IN  IF reqs[r].kind = "generate"
        THEN persistGalleryUploads(gallery',
                 [userId |-> reqs[r].user, jobId |-> loc.jobId,
                  projectId |-> NoId, isSourceAsset |-> FALSE],
                 reqs[r].in.images, loc.uploadedImages)
        ELSE persistGalleryUploads(gallery',
                 [userId |-> reqs[r].user, jobId |-> NoId,
                  projectId |-> loc.committed[Len(loc.committed)].projectId,
                  isSourceAsset |-> TRUE],
                 loc.groups[loc.g].inputs, loc.uploadedImages)

PersistsGallery(r) ==
    /\ Steps(r)
    /\ \/ reqs[r].kind = "generate" /\ reqs[r].pc = "created"
       \/ reqs[r].kind = "batch" /\ reqs[r].pc = "gallery"

\* C16: no two gallery images of one user have the same checksum, and applying
\* persistGalleryUploads a second time to the same uploads of the same user
\* leaves the gallery unchanged.
GalleryIsDeduplicated ==
    /\ [] NoSharedChecksum(gallery)
    /\ [][\A r \in DOMAIN reqs : PersistsGallery(r) => PersistedAgain(r) = gallery']_vars

\* a user's second request brought images the gallery already held: its call
\* added no row for them
GalleryIsDeduplicatedWitness ==
    \E r \in DOMAIN reqs :
        /\ reqs[r].kind = "generate" /\ reqs[r].pc \in {"running", "done"}
        /\ "jobId" \in DOMAIN reqs[r].loc
        /\ \A g \in 1..Len(gallery) : gallery[g].jobId # reqs[r].loc.jobId
        /\ \A i \in 1..Len(reqs[r].in.images) :
              \E g \in 1..Len(gallery) :
                  /\ gallery[g].userId = reqs[r].user
                  /\ gallery[g].checksum = computeImageChecksum(reqs[r].in.images[i])

\* C17: after a successful POST /api/generate the caller's gallery holds a
\* record for every uploaded source image of the request and for every generated
\* result image of the job.
GalleryHoldsSourcesAndResults ==
    \A r \in DOMAIN reqs :
        (reqs[r].kind = "generate" /\ reqs[r].pc = "done" /\ reqs[r].resp.status = 200) =>
            /\ \A i \in 1..Len(reqs[r].in.images) :
                  \E g \in 1..Len(gallery) :
                      /\ gallery[g].userId = reqs[r].user
                      /\ gallery[g].checksum = computeImageChecksum(reqs[r].in.images[i])
            /\ LET results == jobs[reqs[r].loc.jobId].falResultUrls
               IN  \A i \in 1..Len(results) :
                      \E g \in 1..Len(gallery) :
                          /\ gallery[g].userId = reqs[r].user
                          /\ gallery[g].uploadUrl = results[i]

\* the source URLs of a version, the last one repeated up to three
PaddedSources(version) ==
    LET urls == filterUrls(version.sources)
    IN  [i \in 1..REQUIRED_IMAGE_COUNT |-> IF i <= Len(urls) THEN urls[i] ELSE urls[Len(urls)]]

\* a batch upload answered 200 has made `version` for the project
UploadedBy(version) ==
    /\ version.thumbnailJobId = NoId
    /\ \E b \in DOMAIN reqs :
          /\ reqs[b].kind = "batch" /\ reqs[b].pc = "done" /\ reqs[b].resp.status = 200
          /\ \E k \in 1..Len(reqs[b].loc.committed) :
                /\ reqs[b].loc.committed[k].projectId = version.projectId
                /\ reqs[b].loc.committed[k].versionNumber = version.versionNumber

\* C18: after a successful batch upload for a project, the next generate-selection
\* run for the project takes as workflow inputs the source images recorded on the
\* project's latest version, in order, the last one repeated up to three.
GenSelUsesLatestUpload ==
    [][\A r \in DOMAIN reqs :
          (GenSelFetches(r) /\ reqs'[r].pc = "gs_job") =>
              \A i \in 1..Len(reqs'[r].loc.queue) :
                  \A version \in latestVersionOf(versions, reqs'[r].loc.queue[i].id) :
                      UploadedBy(version) =>
                          reqs'[r].loc.queue[i].inputs = PaddedSources(version)]_vars

\* the moves of a job's status that the claim allows
JobStatusMoves ==
    { <<"PENDING", "RUNNING">>, <<"RUNNING", "SUCCESS">>,
      <<"RUNNING", "FAILED">>, <<"PENDING", "FAILED">> }

\* C19: a job is created with status PENDING, its status changes only along
\* PENDING -> RUNNING, RUNNING -> SUCCESS, RUNNING -> FAILED and PENDING -> FAILED,
\* and no job is removed: SUCCESS and FAILED are never left.
JobStatusOnlyMovesForward ==
    [][/\ Len(jobs') >= Len(jobs)
       /\ \A j \in 1..Len(jobs') :
             IF j > Len(jobs) THEN jobs'[j].status = "PENDING"
             ELSE \/ jobs'[j].status = jobs[j].status
                  \/ <<jobs[j].status, jobs'[j].status>> \in JobStatusMoves]_vars

\* a job went from PENDING through RUNNING to SUCCESS, was used by a later save
\* and is still SUCCESS
JobStatusOnlyMovesForwardWitness ==
    \E r \in DOMAIN reqs :
        /\ reqs[r].kind = "save" /\ reqs[r].pc = "done" /\ reqs[r].resp.status = 200
        /\ jobs[reqs[r].in.jobId].status = "SUCCESS"

\* batch upload r commits the transaction of a group in this step
BatchCommits(r) ==
    /\ reqs[r].kind = "batch" /\ reqs[r].pc = "tx" /\ reqs'[r].pc = "gallery"

\* what the committed transaction of a group has done to its project
GroupAddsOneVersion(r) ==
    LET loc == reqs[r].loc
        group == loc.groups[loc.g]
        id == reqs'[r].loc.committed[Len(reqs'[r].loc.committed)].projectId
        previous == IF id \in 1..Len(projects) THEN projects[id].latestVersionNumber ELSE 0
    IN  /\ \A v \in versions : v \in versions'
        /\ versions' \ versions =
               {[projectId |-> id, versionNumber |-> previous + 1,
                 thumbnailJobId |-> NoId, selectedImageUrl |-> <<>>,
                 generatedImageUrls |-> <<>>,
                 sources |-> [i \in 1..3 |->
                                 IF i <= Len(group.inputs)
                                 THEN CloudUrl(group.inputs[i].base64) ELSE NullStr]]}
        /\ \A other \in 1..Len(projects) : other # id => projects'[other] = projects[other]
        /\ Len(projects') = (IF id \in 1..Len(projects) THEN Len(projects) ELSE id)
        /\ projects'[id].userId = reqs[r].user
        /\ projects'[id].slug = group.slug
        /\ projects'[id].latestVersionNumber = previous + 1
        /\ projects'[id].librarySelected
        /\ projects'[id].libraryGenerationStatus = "WAITING"
        /\ projects'[id].libraryGenerationJobId = NoId
        /\ ~projects'[id].libraryGenerationQueuedAt
        /\ ~projects'[id].libraryGenerationCompletedAt

\* an upload answered 200 has committed one transaction per group of the archive,
\* each for a different project
EveryGroupCommittedOnce(req) ==
    /\ Len(req.loc.committed) = Len(req.loc.groups)
    /\ \A i, j \in 1..Len(req.loc.committed) :
          i # j => req.loc.committed[i].projectId # req.loc.committed[j].projectId

\* C20: a successful batch upload adds exactly one new version to each project
\* named in the archive, numbered previous latestVersionNumber + 1, without
\* selectedImageUrl and job and with the group's uploaded URLs as sources; it sets
\* the project to librarySelected and WAITING with job id and timestamps cleared,
\* whatever its status was; no existing version is modified.
BatchAddsOneVersionPerProject ==
    [][\A r \in DOMAIN reqs :
          /\ BatchCommits(r) => GroupAddsOneVersion(r)
          /\ (reqs[r].kind = "batch" /\ Steps(r) /\ ~BatchCommits(r)) =>
                 UNCHANGED <<projects, versions>>
          /\ (reqs'[r].kind = "batch" /\ Steps(r) /\ reqs'[r].resp.status = 200) =>
                 EveryGroupCommittedOnce(reqs'[r])]_vars

\* an upload was answered 200 and has reset a project that had been generated
BatchAddsOneVersionPerProjectWitness ==
    \E r \in DOMAIN reqs :
        /\ reqs[r].kind = "batch" /\ reqs[r].pc = "done" /\ reqs[r].resp.status = 200
        /\ \E k \in 1..Len(reqs[r].loc.committed) :
              LET id == reqs[r].loc.committed[k].projectId
              IN  /\ reqs[r].loc.committed[k].existingProject # NoId
                  /\ projects[id].libraryGenerationStatus = "WAITING"
                  /\ projects[id].libraryGenerationJobId = NoId
                  /\ \E v \in VersionsOf(versions, id) : v.thumbnailJobId # NoId

\* the handler itself answered: a success, or a JSON body that names an error
AnsweredByHandler(resp) == resp.status = 200 \/ resp.error # ""

\* C21: every failure while an authenticated batch upload is handled, a file
\* that cannot be read or decompressed as a ZIP archive included, is caught by
\* the handler and answered with a JSON error; none leaves the handler as an
\* unhandled exception
BatchFailuresAreReported ==
    \A r \in DOMAIN reqs :
        (reqs[r].kind = "batch" /\ reqs[r].user # NoUser /\ reqs[r].pc = "done")
            => AnsweredByHandler(reqs[r].resp)

\* the slug of the project a save or a batch group in its transaction writes to
TargetSlug(req) ==
    IF req.kind = "save" THEN req.loc.slug ELSE req.loc.groups[req.loc.g].slug

\* the (project, version number) pairs a save or a batch upload has committed
CommittedBy(req) ==
    IF req.kind = "save"
    THEN IF req.pc = "done" /\ req.resp.status = 200
         THEN {<<req.loc.projectId, req.loc.versionNumber>>} ELSE {}
    ELSE IF req.kind = "batch" /\ "committed" \in DOMAIN req.loc
    THEN {<<req.loc.committed[i].projectId, req.loc.committed[i].versionNumber>> :
              i \in 1..Len(req.loc.committed)}
    ELSE {}

\* r is inside its transaction, and since its findUnique the save or batch
\* group of q has committed the next version of the same project of the user
RunsConcurrentlyWith(r, q) ==
    /\ q # r
    /\ reqs[r].kind \in {"save", "batch"} /\ reqs[r].pc = "tx"
    /\ reqs[q].kind \in {"save", "batch"} /\ reqs[q].user = reqs[r].user
    /\ \E c \in CommittedBy(reqs[q]) :
          /\ projects[c[1]].userId = reqs[r].user
          /\ projects[c[1]].slug = TargetSlug(reqs[r])
          /\ c[2] = reqs[r].loc.latestVersionNumber + 1

\* the transaction of r commits one more version, numbered after the last one
CommitsNextVersion(r) ==
    /\ reqs'[r].resp.status \in {0, 200}
    /\ \E id \in 1..Len(projects) :
          /\ projects[id].userId = reqs[r].user /\ projects[id].slug = TargetSlug(reqs[r])
          /\ projects' = [projects EXCEPT ![id] = projects'[id]]
          /\ projects'[id].latestVersionNumber = projects[id].latestVersionNumber + 1
          /\ \E v \in versions' \ versions :
                /\ v.projectId = id
                /\ v.versionNumber = projects'[id].latestVersionNumber
                /\ versions' = versions \cup {v}

\* C22: when two saves, two batch-upload groups, or one of each, for the same
\* project of one user run concurrently, both complete and get distinct
\* consecutive version numbers: the one that commits second does not fail and
\* leaves the version and the latestVersionNumber of the first in place
ConcurrentWritersBothCommit ==
    [][ \A r \in DOMAIN reqs, q \in DOMAIN reqs :
          (RunsConcurrentlyWith(r, q) /\ Steps(r)) => CommitsNextVersion(r) ]_vars

\* the generate-selection request r has created a job for project id and is at
\* or past the workflow call of its run, which has not ended
RunInProgress(r, id) ==
    /\ reqs[r].kind = "gensel"
    /\ reqs[r].pc \in {"gs_flow", "gs_proj", "gs_succ"}
    /\ reqs[r].loc.queue[reqs[r].loc.i].id = id
    /\ reqs[r].loc.jobId # NoId

\* C23: at most one library generation run per project is in progress at any
\* time: two concurrent generate-selection requests that name the same WAITING
\* or FAILED project never both create a job and invoke the workflow for it
OneRunPerProject ==
    \A id \in 1..Len(projects) :
        \A r \in DOMAIN reqs, q \in DOMAIN reqs :
            (RunInProgress(r, id) /\ RunInProgress(q, id)) => r = q

\* falResultUrl and the elements of falResultUrls of a job
GeneratedUrlsOf(job) ==
    {job.falResultUrl} \cup { job.falResultUrls[i] : i \in 1..Len(job.falResultUrls) }

\* C24: the selectedImageUrl of a version created by POST /api/library/save is
\* always one of the generated result URLs of the saved job, its falResultUrl or
\* an element of its falResultUrls, whatever selectedImageUrl the request supplies
SaveStoresResultOfJob ==
    [][ \A r \in DOMAIN reqs :
          (reqs[r].kind = "save" /\ reqs[r].pc = "tx" /\ Steps(r)) =>
              \A v \in versions' \ versions :
                  /\ v.thumbnailJobId = reqs[r].in.jobId
                  /\ v.selectedImageUrl \in GeneratedUrlsOf(jobs[v.thumbnailJobId]) ]_vars

====
